---- MODULE Spec2Model ----
(***************************************************************************)
(* Model of the self-extracting tutorial executable: the packer that       *)
(* appends a payload, a JSON manifest and a 17-byte footer to a viewer     *)
(* image, the reader that locates the payload from the tail of the running *)
(* image, and the tutorial-maker export pipeline around them.              *)
(*                                                                         *)
(* Files are sequences of bytes (0..255).  Strings are the sequences of    *)
(* their UTF-8 bytes.  A u64 is a natural number; values of 2^24 and more  *)
(* do not occur in the packer (files are a few hundred bytes) and are      *)
(* classified, not computed, where the reader meets them.                  *)
(***************************************************************************)
EXTENDS Integers, Sequences, FiniteSets, TLC

(* ------------------------------------------------------------------ *)
(* embedded.rs: constants                                               *)
(* ------------------------------------------------------------------ *)

\* b"VISTUT_V1"
MAGIC_BYTES == <<86, 73, 83, 84, 85, 84, 95, 86, 49>>
MAGIC_SIZE == 9
MANIFEST_SIZE_BYTES == 8

(* ------------------------------------------------------------------ *)
(* Results, options                                                     *)
(* ------------------------------------------------------------------ *)

\* Result<T, String>: Ok(v), or Err with the message's fixed text and the
\* formatted argument (the OS error text is not modelled and left empty).
Ok(v) == [ok |-> TRUE, val |-> v]
Err(m, a) == [ok |-> FALSE, msg |-> m, arg |-> a]

\* Option<T>
None == [some |-> FALSE]
Some(x) == [some |-> TRUE, v |-> x]

(* ------------------------------------------------------------------ *)
(* Byte-level helpers                                                   *)
(* ------------------------------------------------------------------ *)

Byte == 0..255

Min(a, b) == IF a < b THEN a ELSE b

\* The model's range of exactly represented u64 values is [0, Huge).
Huge == 256 * 256 * 256

\* A faulty size word: the most significant byte first.
to_be_bytes(n) ==
    << 0, 0, 0, 0, 0, (n \div 65536) % 256, (n \div 256) % 256, n % 256 >>

\* u64::to_le_bytes for a value below 2^24.
to_le_bytes(n) ==
    << n % 256, (n \div 256) % 256, (n \div 65536) % 256, 0, 0, 0, 0, 0 >>

\* u64::from_le_bytes followed by the `as i64` / `as usize` casts of
\* read_manifest.  The value is computed when it is below 2^24; above, only
\* the class that decides the reader's path is kept:
\*   "neg"  : 2^63 or more (negative as i64); over is the value less 2^63
\*            when that is below 2^24,
\*   "edge" : within 16 of i64::MAX (17 + v overflows i64),
\*   "mid"  : every other value of 2^24 or more.
from_le_bytes(b) ==
    IF \A i \in 4..8 : b[i] = 0
    THEN [cls |-> "small", v |-> b[1] + 256 * b[2] + 65536 * b[3], over |-> 0]
    ELSE IF b[8] >= 128
    THEN [cls |-> "neg", v |-> Huge,
          over |-> IF b[8] = 128 /\ (\A i \in 4..7 : b[i] = 0)
                   THEN b[1] + 256 * b[2] + 65536 * b[3] ELSE Huge]
    ELSE IF b[8] = 127 /\ (\A i \in 2..7 : b[i] = 255) /\ b[1] >= 239
    THEN [cls |-> "edge", v |-> Huge, over |-> 0]
    ELSE [cls |-> "mid", v |-> Huge, over |-> 0]

\* String::from_utf8's validity check (RFC 3629: no overlong forms, no
\* surrogates, nothing above U+10FFFF), stated per byte: a lead byte is
\* followed by its continuation bytes, and a continuation byte belongs to
\* the lead byte one, two or three places before it.
IsCont(s, i) == i >= 1 /\ i <= Len(s) /\ s[i] >= 128 /\ s[i] <= 191

\* Number of bytes of the sequence a lead byte starts (0: not a lead byte).
SeqLen(b) ==
    IF b < 128 THEN 1
    ELSE IF b >= 194 /\ b <= 223 THEN 2
    ELSE IF b >= 224 /\ b <= 239 THEN 3
    ELSE IF b >= 240 /\ b <= 244 THEN 4
    ELSE 0

LeadOk(s, i) ==
    LET b == s[i] IN
    /\ \A k \in 1..(SeqLen(b) - 1) : IsCont(s, i + k)
    /\ (b = 224 => s[i + 1] >= 160)
    /\ (b = 237 => s[i + 1] <= 159)
    /\ (b = 240 => s[i + 1] >= 144)
    /\ (b = 244 => s[i + 1] <= 143)

ContOk(s, i) ==
    \E k \in 1..3 :
        /\ i - k >= 1
        /\ SeqLen(s[i - k]) > k
        /\ \A j \in 1..(k - 1) : IsCont(s, i - j)

from_utf8_ok(s) ==
    \A i \in 1..Len(s) :
        IF s[i] >= 128 /\ s[i] <= 191 THEN ContOk(s, i)
        ELSE SeqLen(s[i]) > 0 /\ LeadOk(s, i)

\* File::seek(SeekFrom::Start(pos)) / SeekFrom::End(off) followed by
\* read_exact of n bytes: the bytes, or which of the two calls failed.
\* Seeking before byte 0 is an error; seeking past the end is not, and the
\* read that follows comes up short.
ReadAt(F, pos, n) ==
    IF pos < 0 THEN [st |-> "seek"]
    ELSE IF pos + n > Len(F) THEN [st |-> "read"]
    ELSE [st |-> "ok", bytes |-> SubSeq(F, pos + 1, pos + n)]

(* ------------------------------------------------------------------ *)
(* serde_json::to_string(&BuildManifest)                                *)
(* ------------------------------------------------------------------ *)

\* ASCII of the camelCase field names and of the literals (34 is the
\* double quote, 92 the backslash, 44 the comma, 58 the colon, 91 93 123 125
\* the brackets and braces).
K_projectJsonOffset ==
    <<112, 114, 111, 106, 101, 99, 116, 74, 115, 111, 110, 79, 102, 102, 115, 101, 116>>
K_projectJsonSize ==
    <<112, 114, 111, 106, 101, 99, 116, 74, 115, 111, 110, 83, 105, 122, 101>>
K_media == <<109, 101, 100, 105, 97>>
K_buttons == <<98, 117, 116, 116, 111, 110, 115>>
K_appIconOffset == <<97, 112, 112, 73, 99, 111, 110, 79, 102, 102, 115, 101, 116>>
K_appIconSize == <<97, 112, 112, 73, 99, 111, 110, 83, 105, 122, 101>>
K_id == <<105, 100>>
K_name == <<110, 97, 109, 101>>
K_mimeType == <<109, 105, 109, 101, 84, 121, 112, 101>>
K_offset == <<111, 102, 102, 115, 101, 116>>
K_size == <<115, 105, 122, 101>>
T_null == <<110, 117, 108, 108>>
T_true == <<116, 114, 117, 101>>
T_false == <<102, 97, 108, 115, 101>>

\* Decimal digits of a u64 (itoa).
RECURSIVE ser_u64(_)
ser_u64(n) ==
    IF n < 10 THEN <<48 + n>>
    ELSE Append(ser_u64(n \div 10), 48 + (n % 10))

HexDigit(d) == IF d < 10 THEN 48 + d ELSE 87 + d

\* The escape serde_json writes for one byte of a string.
ser_char(c) ==
    IF c = 34 THEN <<92, 34>>
    ELSE IF c = 92 THEN <<92, 92>>
    ELSE IF c = 8 THEN <<92, 98>>
    ELSE IF c = 12 THEN <<92, 102>>
    ELSE IF c = 10 THEN <<92, 110>>
    ELSE IF c = 13 THEN <<92, 114>>
    ELSE IF c = 9 THEN <<92, 116>>
    ELSE IF c < 32
    THEN <<92, 117, 48, 48, HexDigit(c \div 16), HexDigit(c % 16)>>
    ELSE <<c>>

RECURSIVE ser_chars(_, _)
ser_chars(s, i) ==
    IF i > Len(s) THEN <<>> ELSE ser_char(s[i]) \o ser_chars(s, i + 1)

ser_str(s) == <<34>> \o ser_chars(s, 1) \o <<34>>

\* "key":
ser_key(k) == ser_str(k) \o <<58>>

\* Option<u64> has no skip_serializing_if: None is written as null.
ser_opt_u64(o) == IF o.some THEN ser_u64(o.v) ELSE T_null

\* MediaManifestEntry, fields in declaration order.
ser_entry(e) ==
    <<123>> \o ser_key(K_id) \o ser_str(e.id)
    \o <<44>> \o ser_key(K_name) \o ser_str(e.name)
    \o <<44>> \o ser_key(K_mimeType) \o ser_str(e.mime_type)
    \o <<44>> \o ser_key(K_offset) \o ser_u64(e.offset)
    \o <<44>> \o ser_key(K_size) \o ser_u64(e.size)
    \o <<125>>

RECURSIVE ser_entries(_, _)
ser_entries(es, i) ==
    IF i > Len(es) THEN <<>>
    ELSE (IF i > 1 THEN <<44>> ELSE <<>>) \o ser_entry(es[i]) \o ser_entries(es, i + 1)

ser_vec(es) == <<91>> \o ser_entries(es, 1) \o <<93>>

\* BuildManifest, compact, fields in declaration order.
to_string(m) ==
    <<123>> \o ser_key(K_projectJsonOffset) \o ser_u64(m.project_json_offset)
    \o <<44>> \o ser_key(K_projectJsonSize) \o ser_u64(m.project_json_size)
    \o <<44>> \o ser_key(K_media) \o ser_vec(m.media)
    \o <<44>> \o ser_key(K_buttons) \o ser_vec(m.buttons)
    \o <<44>> \o ser_key(K_appIconOffset) \o ser_opt_u64(m.app_icon_offset)
    \o <<44>> \o ser_key(K_appIconSize) \o ser_opt_u64(m.app_icon_size)
    \o <<125>>

(* ------------------------------------------------------------------ *)
(* serde_json::from_str::<BuildManifest>                                *)
(* ------------------------------------------------------------------ *)

\* The parser reads the text into a JSON value and the typed layer below
\* (de_*) turns the value into the structs, as serde's derived Deserialize
\* does while it reads.  A parse result is [ok, pos, val]: pos is the
\* index of the first byte not consumed.
Fail == [ok |-> FALSE]

IsWs(c) == c = 32 \/ c = 10 \/ c = 13 \/ c = 9
IsDigit(c) == c >= 48 /\ c <= 57

RECURSIVE SkipWs(_, _)
SkipWs(s, i) == IF i <= Len(s) /\ IsWs(s[i]) THEN SkipWs(s, i + 1) ELSE i

\* s[i..] starts with the literal w.
StartsAt(s, i, w) ==
    i + Len(w) - 1 <= Len(s) /\ SubSeq(s, i, i + Len(w) - 1) = w

RECURSIVE DigitsEnd(_, _)
DigitsEnd(s, i) == IF i <= Len(s) /\ IsDigit(s[i]) THEN DigitsEnd(s, i + 1) ELSE i

\* Value of the digits s[i..j-1], saturating at Huge.
RECURSIVE DigitsVal(_, _, _, _)
DigitsVal(s, i, j, acc) ==
    IF i >= j THEN acc
    ELSE DigitsVal(s, i + 1, j, Min(Huge, acc * 10 + (s[i] - 48)))

\* u64::MAX = 18446744073709551615
U64MaxDigits ==
    <<49, 56, 52, 52, 54, 55, 52, 52, 48, 55, 51, 55, 48, 57, 53, 53, 49, 54, 49, 53>>

RECURSIVE LexLeq(_, _, _)
LexLeq(a, b, i) ==
    IF i > Len(a) THEN TRUE
    ELSE IF a[i] < b[i] THEN TRUE
    ELSE IF a[i] > b[i] THEN FALSE
    ELSE LexLeq(a, b, i + 1)

FitsU64(d) == Len(d) < 20 \/ (Len(d) = 20 /\ LexLeq(d, U64MaxDigits, 1))

\* A JSON number starting at s[i]: -? (0 | [1-9][0-9]*) (.[0-9]+)? ([eE][+-]?[0-9]+)?
\* The integer digits are s[a..b-1] and the number ends before s[e];
\* plain says that it has no sign, no fraction and no exponent.  uint is
\* what deserialize_u64 accepts: plain, and at most u64::MAX.
NumberDone(s, a, b, e, plain) ==
    [ok |-> TRUE, pos |-> e,
     val |-> [t |-> "num",
              uint |-> plain /\ FitsU64(SubSeq(s, a, b - 1)),
              n |-> DigitsVal(s, a, b, 0)]]

\* The exponent's digits are s[d..e-1].
NumberExpDigits(s, a, b, d, e) ==
    IF e > d THEN NumberDone(s, a, b, e, FALSE) ELSE Fail

\* The fraction, if any, ends before s[c].
NumberExp(s, a, b, c, neg) ==
    IF c <= Len(s) /\ (s[c] = 101 \/ s[c] = 69)
    THEN IF c + 1 <= Len(s) /\ (s[c + 1] = 43 \/ s[c + 1] = 45)
         THEN NumberExpDigits(s, a, b, c + 2, DigitsEnd(s, c + 2))
         ELSE NumberExpDigits(s, a, b, c + 1, DigitsEnd(s, c + 1))
    ELSE NumberDone(s, a, b, c, ~neg /\ c = b)

NumberFracDigits(s, a, b, c, neg) ==
    IF c > b + 1 THEN NumberExp(s, a, b, c, neg) ELSE Fail

NumberInt(s, a, b, neg) ==
    IF ~(b > a /\ (s[a] = 48 => b = a + 1)) THEN Fail
    ELSE IF b <= Len(s) /\ s[b] = 46
    THEN NumberFracDigits(s, a, b, DigitsEnd(s, b + 1), neg)
    ELSE NumberExp(s, a, b, b, neg)

ParseNumber(s, i) ==
    IF s[i] = 45 THEN NumberInt(s, i + 1, DigitsEnd(s, i + 1), TRUE)
    ELSE NumberInt(s, i, DigitsEnd(s, i), FALSE)

IsHex(c) == IsDigit(c) \/ (c >= 97 /\ c <= 102) \/ (c >= 65 /\ c <= 70)
HexVal(c) == IF IsDigit(c) THEN c - 48 ELSE IF c >= 97 THEN c - 87 ELSE c - 55

\* The four hex digits at s[i..i+3], or -1.
Hex4(s, i) ==
    IF i + 3 <= Len(s) /\ (\A k \in i..(i + 3) : IsHex(s[k]))
    THEN 4096 * HexVal(s[i]) + 256 * HexVal(s[i + 1]) + 16 * HexVal(s[i + 2]) + HexVal(s[i + 3])
    ELSE -1

\* UTF-8 of a code point.
EncodeUtf8(cp) ==
    IF cp < 128 THEN <<cp>>
    ELSE IF cp < 2048 THEN <<192 + (cp \div 64), 128 + (cp % 64)>>
    ELSE IF cp < 65536
    THEN <<224 + (cp \div 4096), 128 + ((cp \div 64) % 64), 128 + (cp % 64)>>
    ELSE <<240 + (cp \div 262144), 128 + ((cp \div 4096) % 64),
           128 + ((cp \div 64) % 64), 128 + (cp % 64)>>

Escaped(pos, bytes) == [ok |-> TRUE, pos |-> pos, bytes |-> bytes]

\* \uD800..\uDBFF must be followed by \uDC00..\uDFFF (l, or -1).
EscapeSurrogate(i, h, l) ==
    IF l < 56320 \/ l > 57343 THEN Fail
    ELSE Escaped(i + 11, EncodeUtf8(65536 + 1024 * (h - 55296) + (l - 56320)))

\* \uXXXX with XXXX = h (or -1), the u at s[i].
EscapeUnicode(s, i, h) ==
    IF h < 0 THEN Fail
    ELSE IF h >= 56320 /\ h <= 57343 THEN Fail
    ELSE IF h >= 55296 /\ h <= 56319
    THEN EscapeSurrogate(i, h, IF StartsAt(s, i + 5, <<92, 117>>) THEN Hex4(s, i + 7) ELSE -1)
    ELSE Escaped(i + 5, EncodeUtf8(h))

\* The escape whose backslash is at s[i-1]: [ok, pos, bytes].
ParseEscape(s, i) ==
    IF i > Len(s) THEN Fail
    ELSE IF s[i] = 34 \/ s[i] = 92 \/ s[i] = 47 THEN Escaped(i + 1, <<s[i]>>)
    ELSE IF s[i] = 98 THEN Escaped(i + 1, <<8>>)
    ELSE IF s[i] = 102 THEN Escaped(i + 1, <<12>>)
    ELSE IF s[i] = 110 THEN Escaped(i + 1, <<10>>)
    ELSE IF s[i] = 114 THEN Escaped(i + 1, <<13>>)
    ELSE IF s[i] = 116 THEN Escaped(i + 1, <<9>>)
    ELSE IF s[i] = 117 THEN EscapeUnicode(s, i, Hex4(s, i + 1))
    ELSE Fail

\* The string whose opening quote is at s[i-1].
RECURSIVE ParseString(_, _, _)
RECURSIVE StringAfterEscape(_, _, _)

StringAfterEscape(s, acc, e) ==
    IF e.ok THEN ParseString(s, e.pos, acc \o e.bytes) ELSE Fail

ParseString(s, i, acc) ==
    IF i > Len(s) THEN Fail
    ELSE IF s[i] = 34 THEN [ok |-> TRUE, pos |-> i + 1, val |-> [t |-> "str", s |-> acc]]
    ELSE IF s[i] = 92 THEN StringAfterEscape(s, acc, ParseEscape(s, i + 1))
    ELSE IF s[i] < 32 THEN Fail
    ELSE ParseString(s, i + 1, Append(acc, s[i]))

RECURSIVE ParseValue(_, _)
RECURSIVE ValueAt(_, _)
RECURSIVE ParseElems(_, _, _)
RECURSIVE ElemsAfterValue(_, _, _)
RECURSIVE ElemsSeparator(_, _, _, _)
RECURSIVE ParseMembers(_, _, _)
RECURSIVE MembersKey(_, _, _)
RECURSIVE MembersColon(_, _, _, _)
RECURSIVE MembersValue(_, _, _, _)
RECURSIVE MembersSeparator(_, _, _, _)

\* After an element v: ',' or ']' at s[j].
ElemsSeparator(s, acc, v, j) ==
    IF j > Len(s) THEN Fail
    ELSE IF s[j] = 44 THEN ParseElems(s, j + 1, Append(acc, v.val))
    ELSE IF s[j] = 93
    THEN [ok |-> TRUE, pos |-> j + 1, val |-> [t |-> "arr", a |-> Append(acc, v.val)]]
    ELSE Fail

ElemsAfterValue(s, acc, v) ==
    IF v.ok THEN ElemsSeparator(s, acc, v, SkipWs(s, v.pos)) ELSE Fail

\* After '[' or ',': the next element, then ',' or ']'.
ParseElems(s, i, acc) == ElemsAfterValue(s, acc, ParseValue(s, i))

\* After a member: ',' or '}' at s[n]; m is the members read.
MembersSeparator(s, m, v, n) ==
    IF n > Len(s) THEN Fail
    ELSE IF s[n] = 44 THEN ParseMembers(s, n + 1, m)
    ELSE IF s[n] = 125 THEN [ok |-> TRUE, pos |-> n + 1, val |-> [t |-> "obj", m |-> m]]
    ELSE Fail

MembersValue(s, acc, k, v) ==
    IF v.ok
    THEN MembersSeparator(s, Append(acc, [k |-> k.val.s, v |-> v.val]), v, SkipWs(s, v.pos))
    ELSE Fail

\* After the key k: ':' at s[c], then the value.
MembersColon(s, acc, k, c) ==
    IF c > Len(s) \/ s[c] # 58 THEN Fail
    ELSE MembersValue(s, acc, k, ParseValue(s, c + 1))

MembersKey(s, acc, k) ==
    IF k.ok THEN MembersColon(s, acc, k, SkipWs(s, k.pos)) ELSE Fail

\* After '{' or ',': "key" : value, then ',' or '}'.
ParseMembers(s, i, acc) ==
    IF SkipWs(s, i) > Len(s) \/ s[SkipWs(s, i)] # 34 THEN Fail
    ELSE MembersKey(s, acc, ParseString(s, SkipWs(s, i) + 1, <<>>))

\* The value that starts at s[i], s[i] not whitespace.
ValueAt(s, i) ==
    IF i > Len(s) THEN Fail
    ELSE IF s[i] = 110
    THEN IF StartsAt(s, i, T_null)
         THEN [ok |-> TRUE, pos |-> i + 4, val |-> [t |-> "null"]] ELSE Fail
    ELSE IF s[i] = 116
    THEN IF StartsAt(s, i, T_true)
         THEN [ok |-> TRUE, pos |-> i + 4, val |-> [t |-> "bool"]] ELSE Fail
    ELSE IF s[i] = 102
    THEN IF StartsAt(s, i, T_false)
         THEN [ok |-> TRUE, pos |-> i + 5, val |-> [t |-> "bool"]] ELSE Fail
    ELSE IF s[i] = 34 THEN ParseString(s, i + 1, <<>>)
    ELSE IF s[i] = 45 \/ IsDigit(s[i]) THEN ParseNumber(s, i)
    ELSE IF s[i] = 91
    THEN IF SkipWs(s, i + 1) <= Len(s) /\ s[SkipWs(s, i + 1)] = 93
         THEN [ok |-> TRUE, pos |-> SkipWs(s, i + 1) + 1, val |-> [t |-> "arr", a |-> <<>>]]
         ELSE ParseElems(s, i + 1, <<>>)
    ELSE IF s[i] = 123
    THEN IF SkipWs(s, i + 1) <= Len(s) /\ s[SkipWs(s, i + 1)] = 125
         THEN [ok |-> TRUE, pos |-> SkipWs(s, i + 1) + 1, val |-> [t |-> "obj", m |-> <<>>]]
         ELSE ParseMembers(s, i + 1, <<>>)
    ELSE Fail

ParseValue(s, i) == ValueAt(s, SkipWs(s, i))

\* serde's derived Deserialize, on the value read.  A struct is read from
\* an object (unknown keys ignored, a known key twice is an error, a missing
\* key is an error unless its field is an Option) or from an array of
\* exactly its fields in declaration order.
Count(m, key) == Cardinality({i \in 1..Len(m) : m[i].k = key})
Get(m, key) == m[CHOOSE i \in 1..Len(m) : m[i].k = key].v

is_u64(v) == v.t = "num" /\ v.uint
is_opt_u64(v) == v.t = "null" \/ is_u64(v)
is_string(v) == v.t = "str"
de_opt_u64(v) == IF v.t = "null" THEN None ELSE Some(v.n)

EntryKeys == <<K_id, K_name, K_mimeType, K_offset, K_size>>

\* MediaManifestEntry
de_entry(v) ==
    IF v.t = "obj"
    THEN LET m == v.m IN
         IF /\ \A i \in 1..5 : Count(m, EntryKeys[i]) = 1
            /\ is_string(Get(m, K_id)) /\ is_string(Get(m, K_name))
            /\ is_string(Get(m, K_mimeType))
            /\ is_u64(Get(m, K_offset)) /\ is_u64(Get(m, K_size))
         THEN Ok([id |-> Get(m, K_id).s, name |-> Get(m, K_name).s,
                  mime_type |-> Get(m, K_mimeType).s,
                  offset |-> Get(m, K_offset).n, size |-> Get(m, K_size).n])
         ELSE Fail
    ELSE IF v.t = "arr"
    THEN LET a == v.a IN
         IF /\ Len(a) = 5
            /\ is_string(a[1]) /\ is_string(a[2]) /\ is_string(a[3])
            /\ is_u64(a[4]) /\ is_u64(a[5])
         THEN Ok([id |-> a[1].s, name |-> a[2].s, mime_type |-> a[3].s,
                  offset |-> a[4].n, size |-> a[5].n])
         ELSE Fail
    ELSE Fail

\* Vec<MediaManifestEntry>
vec_ok(v) == v.t = "arr" /\ \A i \in 1..Len(v.a) : de_entry(v.a[i]).ok
de_vec(v) == [i \in 1..Len(v.a) |-> de_entry(v.a[i]).val]

RequiredKeys == <<K_projectJsonOffset, K_projectJsonSize, K_media, K_buttons>>
OptionKeys == <<K_appIconOffset, K_appIconSize>>

\* An Option<u64> field of an object: absent, null or a u64.
opt_field_ok(m, key) == Count(m, key) = 0 \/ (Count(m, key) = 1 /\ is_opt_u64(Get(m, key)))
de_opt_field(m, key) == IF Count(m, key) = 0 THEN None ELSE de_opt_u64(Get(m, key))

\* BuildManifest
de_manifest(v) ==
    IF v.t = "obj"
    THEN LET m == v.m IN
         IF /\ \A i \in 1..4 : Count(m, RequiredKeys[i]) = 1
            /\ is_u64(Get(m, K_projectJsonOffset)) /\ is_u64(Get(m, K_projectJsonSize))
            /\ vec_ok(Get(m, K_media)) /\ vec_ok(Get(m, K_buttons))
            /\ opt_field_ok(m, K_appIconOffset) /\ opt_field_ok(m, K_appIconSize)
         THEN Ok([project_json_offset |-> Get(m, K_projectJsonOffset).n,
                  project_json_size |-> Get(m, K_projectJsonSize).n,
                  media |-> de_vec(Get(m, K_media)),
                  buttons |-> de_vec(Get(m, K_buttons)),
                  app_icon_offset |-> de_opt_field(m, K_appIconOffset),
                  app_icon_size |-> de_opt_field(m, K_appIconSize)])
         ELSE Fail
    ELSE IF v.t = "arr"
    THEN LET a == v.a IN
         IF /\ Len(a) = 6
            /\ is_u64(a[1]) /\ is_u64(a[2]) /\ vec_ok(a[3]) /\ vec_ok(a[4])
            /\ is_opt_u64(a[5]) /\ is_opt_u64(a[6])
         THEN Ok([project_json_offset |-> a[1].n, project_json_size |-> a[2].n,
                  media |-> de_vec(a[3]), buttons |-> de_vec(a[4]),
                  app_icon_offset |-> de_opt_u64(a[5]),
                  app_icon_size |-> de_opt_u64(a[6])])
         ELSE Fail
    ELSE Fail

\* serde_json::from_str: one value, then nothing but whitespace.
from_value(s, r) ==
    IF r.ok /\ SkipWs(s, r.pos) > Len(s) THEN de_manifest(r.val) ELSE Fail

from_str(s) == from_value(s, ParseValue(s, 1))

(* ------------------------------------------------------------------ *)
(* embedded.rs: the reader                                              *)
(* ------------------------------------------------------------------ *)

\* A panic (abnormal end) of the operation, where the code has one.
Panic == [ok |-> FALSE, msg |-> "panic", arg |-> <<>>]

\* 17 + manifest_size overflows i64: a panic in a build with overflow
\* checks, and in a build without them a seek that fails; which of the
\* two is not decided here.
OverflowOrSeek == [ok |-> FALSE, msg |-> "panic or Failed to seek to manifest: ", arg |-> <<>>]

\* The 9 bytes read at the end of the file, compared.
magic_read(r) ==
    IF r.st = "seek" THEN Err("Failed to seek: ", <<>>)
    ELSE IF r.st = "read" THEN Err("Failed to read magic bytes: ", <<>>)
    ELSE Ok(r.bytes = MAGIC_BYTES)

\* A faulty check: no test of the file's length.
check_magic_bytes_no_length_check(F) ==
    magic_read(ReadAt(F, Len(F) - MAGIC_SIZE, MAGIC_SIZE))

check_magic_bytes(F) ==
    IF Len(F) < MAGIC_SIZE + MANIFEST_SIZE_BYTES THEN Ok(FALSE)
    ELSE magic_read(ReadAt(F, Len(F) - MAGIC_SIZE, MAGIC_SIZE))

\* serde_json::from_str(&manifest_json).map_err(..)
manifest_parsed(m) ==
    IF m.ok THEN Ok(m.val) ELSE Err("Failed to parse manifest JSON: ", <<>>)

\* The manifest bytes read before the footer: UTF-8, then JSON.
manifest_read(r) ==
    IF r.st = "seek" THEN Err("Failed to seek to manifest: ", <<>>)
    ELSE IF r.st = "read" THEN Err("Failed to read manifest: ", <<>>)
    ELSE IF ~from_utf8_ok(r.bytes) THEN Err("Invalid UTF-8 in manifest: ", <<>>)
    ELSE manifest_parsed(from_str(r.bytes))

\* The size word read: seek back by 17 + manifest_size, read manifest_size.
manifest_sized(F, manifest_size) ==
    IF manifest_size.cls = "small"
    THEN manifest_read(ReadAt(F, Len(F) - (MAGIC_SIZE + MANIFEST_SIZE_BYTES) - manifest_size.v,
                              manifest_size.v))
    \* 2^24 <= size < 2^63 - 16: the seek lands before byte 0.
    ELSE IF manifest_size.cls = "mid" THEN Err("Failed to seek to manifest: ", <<>>)
    ELSE IF manifest_size.cls = "edge" THEN OverflowOrSeek
    \* 2^63 or more: the size is negative as i64 and the seek goes forward
    \* from the end by 2^64 - size - 17.  It fails when that lands beyond
    \* i64::MAX; otherwise vec![0u8; size as usize] asks for more than
    \* isize::MAX bytes and panics (capacity overflow).
    ELSE IF manifest_size.over + 16 < Len(F) THEN Err("Failed to seek to manifest: ", <<>>)
    ELSE Panic

size_read(F, r) ==
    IF r.st = "seek" THEN Err("Failed to seek to manifest size: ", <<>>)
    ELSE IF r.st = "read" THEN Err("Failed to read manifest size: ", <<>>)
    ELSE manifest_sized(F, from_le_bytes(r.bytes))

read_manifest(F) ==
    size_read(F, ReadAt(F, Len(F) - (MAGIC_SIZE + MANIFEST_SIZE_BYTES), MANIFEST_SIZE_BYTES))

project_read(r) ==
    IF r.st = "seek" THEN Err("Failed to seek to project JSON: ", <<>>)
    ELSE IF r.st = "read" THEN Err("Failed to read project JSON: ", <<>>)
    ELSE IF ~from_utf8_ok(r.bytes) THEN Err("Invalid UTF-8 in project JSON: ", <<>>)
    ELSE Ok(r.bytes)

read_embedded_project(F, manifest) ==
    project_read(ReadAt(F, manifest.project_json_offset, manifest.project_json_size))

media_read(r) ==
    IF r.st = "seek" THEN Err("Failed to seek to media: ", <<>>)
    ELSE IF r.st = "read" THEN Err("Failed to read media: ", <<>>)
    ELSE Ok(r.bytes)

read_embedded_media(F, offset, size) == media_read(ReadAt(F, offset, size))

\* A faulty get_embedded_info: a manifest that cannot be read counts as no
\* embedded data.
info_with_manifest_lenient(m) ==
    [res |-> IF m.ok THEN Ok([has_embedded_data |-> TRUE, manifest |-> Some(m.val)])
             ELSE Ok([has_embedded_data |-> FALSE, manifest |-> None]),
     calls |-> <<"check_magic_bytes", "read_manifest">>]

\* EmbeddedInfo once the manifest was read (or not), with the functions the
\* call went through.
info_with_manifest(m) ==
    [res |-> IF m.ok THEN Ok([has_embedded_data |-> TRUE, manifest |-> Some(m.val)])
             ELSE m,
     calls |-> <<"check_magic_bytes", "read_manifest">>]

info_checked(F, c) ==
    IF ~c.ok THEN [res |-> c, calls |-> <<"check_magic_bytes">>]
    ELSE IF ~c.val
    THEN [res |-> Ok([has_embedded_data |-> FALSE, manifest |-> None]),
          calls |-> <<"check_magic_bytes">>]
    ELSE info_with_manifest(read_manifest(F))

get_embedded_info(F) == info_checked(F, check_magic_bytes(F))

(* ------------------------------------------------------------------ *)
(* embedded.rs: the packer                                              *)
(* ------------------------------------------------------------------ *)

\* A faulty loop: each entry records the offset after its bytes.
RECURSIVE write_files_late_offset(_, _, _)
write_files_late_offset(files, i, current_offset) ==
    IF i > Len(files)
    THEN [entries |-> <<>>, bytes |-> <<>>, current_offset |-> current_offset]
    ELSE LET size == Len(files[i].data)
             rest == write_files_late_offset(files, i + 1, current_offset + size)
         IN  [entries |-> <<[id |-> files[i].id, name |-> files[i].name,
                             mime_type |-> files[i].mime_type,
                             offset |-> current_offset + size, size |-> size]>>
                          \o rest.entries,
              bytes |-> files[i].data \o rest.bytes,
              current_offset |-> rest.current_offset]

\* One `for (id, name, mime_type, data) in files` loop: the bytes written,
\* the entries pushed and current_offset after the loop.
RECURSIVE write_files(_, _, _)
write_files(files, i, current_offset) ==
    IF i > Len(files)
    THEN [entries |-> <<>>, bytes |-> <<>>, current_offset |-> current_offset]
    ELSE LET size == Len(files[i].data)
             rest == write_files(files, i + 1, current_offset + size)
         IN  [entries |-> <<[id |-> files[i].id, name |-> files[i].name,
                             mime_type |-> files[i].mime_type,
                             offset |-> current_offset, size |-> size]>>
                          \o rest.entries,
              bytes |-> files[i].data \o rest.bytes,
              current_offset |-> rest.current_offset]

\* A faulty icon block: the offset recorded is the one after the icon.
write_icon_end_offset(app_icon, current_offset) ==
    IF app_icon.some
    THEN [offset |-> Some(current_offset + Len(app_icon.v)), size |-> Some(Len(app_icon.v)),
          bytes |-> app_icon.v, current_offset |-> current_offset + Len(app_icon.v)]
    ELSE [offset |-> None, size |-> None, bytes |-> <<>>,
          current_offset |-> current_offset]

\* The icon block: (app_icon_offset, app_icon_size), the bytes written and
\* current_offset after it.
write_icon(app_icon, current_offset) ==
    IF app_icon.some
    THEN [offset |-> Some(current_offset), size |-> Some(Len(app_icon.v)),
          bytes |-> app_icon.v, current_offset |-> current_offset + Len(app_icon.v)]
    ELSE [offset |-> None, size |-> None, bytes |-> <<>>,
          current_offset |-> current_offset]

\* A faulty footer: the magic first, the size after it.
write_footer_magic_first(manifest_size) == MAGIC_BYTES \o to_le_bytes(manifest_size)

\* The footer: manifest size (8 bytes, little-endian), then the magic.
write_footer(manifest_size) == to_le_bytes(manifest_size) \o MAGIC_BYTES

\* The appends of create_embedded_executable to the file it opened with
\* length file_len: the manifest built and every byte written, in order.
append_payload(file_len, project_json, media_files, button_files, app_icon) ==
    LET media == write_files(media_files, 1, file_len)
        buttons == write_files(button_files, 1, media.current_offset)
        icon == write_icon(app_icon, buttons.current_offset)
        manifest == [project_json_offset |-> icon.current_offset,
                     project_json_size |-> Len(project_json),
                     media |-> media.entries,
                     buttons |-> buttons.entries,
                     app_icon_offset |-> icon.offset,
                     app_icon_size |-> icon.size]
        manifest_bytes == to_string(manifest)
    IN  [manifest |-> manifest,
         bytes |-> media.bytes \o buttons.bytes \o icon.bytes \o project_json
                   \o manifest_bytes \o write_footer(Len(manifest_bytes))]

\* A faulty packer: the offsets count from the length of a bare viewer
\* image, whatever the running image already carries.
create_embedded_executable_bare_start(source_exe, project_json, media_files, button_files, app_icon) ==
    source_exe
    \o append_payload(Len(<<77, 90, 144>>), project_json, media_files, button_files,
                      app_icon).bytes

\* A faulty packer: the offsets count from 0 instead of the file's length.
create_embedded_executable_zero_start(source_exe, project_json, media_files, button_files, app_icon) ==
    source_exe
    \o append_payload(0, project_json, media_files, button_files, app_icon).bytes

\* fs::copy of the running image to output_path, then the appends.
create_embedded_executable(source_exe, project_json, media_files, button_files, app_icon) ==
    source_exe
    \o append_payload(Len(source_exe), project_json, media_files, button_files,
                      app_icon).bytes

(* ------------------------------------------------------------------ *)
(* tutorial-viewer lib.rs: the commands                                 *)
(* ------------------------------------------------------------------ *)

\* manifest.media.iter().find(|e| e.id == id): the first match, or None.
Hits(entries, id) == {i \in 1..Len(entries) : entries[i].id = id}

find(entries, id) ==
    IF Hits(entries, id) = {} THEN None
    ELSE Some(entries[CHOOSE i \in Hits(entries, id) : \A j \in Hits(entries, id) : i <= j])

\* if !check_magic_bytes(&exe_path)? { return Err(..) }: c is the check's
\* result, then is what the command does with the manifest read.
project_from(F, manifest) ==
    IF manifest.ok THEN read_embedded_project(F, manifest.val) ELSE manifest

project_checked(F, c) ==
    IF ~c.ok THEN c
    ELSE IF ~c.val THEN Err("No embedded data found", <<>>)
    ELSE project_from(F, read_manifest(F))

get_embedded_project_json(F) == project_checked(F, check_magic_bytes(F))

\* A faulty lookup: the buttons are preferred to the media.
media_found_buttons_first(F, id, m, b) ==
    IF b.some THEN read_embedded_media(F, b.v.offset, b.v.size)
    ELSE IF m.some THEN read_embedded_media(F, m.v.offset, m.v.size)
    ELSE Err("Media not found: ", id)

media_found(F, id, m, b) ==
    IF m.some THEN read_embedded_media(F, m.v.offset, m.v.size)
    ELSE IF b.some THEN read_embedded_media(F, b.v.offset, b.v.size)
    ELSE Err("Media not found: ", id)

media_from(F, id, manifest) ==
    IF manifest.ok
    THEN media_found(F, id, find(manifest.val.media, id), find(manifest.val.buttons, id))
    ELSE manifest

media_checked(F, id, c) ==
    IF ~c.ok THEN c
    ELSE IF ~c.val THEN Err("No embedded data found", <<>>)
    ELSE media_from(F, id, read_manifest(F))

get_embedded_media_data(F, id) == media_checked(F, id, check_magic_bytes(F))

icon_data(data) == IF data.ok THEN Ok(Some(data.val)) ELSE data

icon_from(F, manifest) ==
    IF ~manifest.ok THEN manifest
    ELSE IF manifest.val.app_icon_offset.some /\ manifest.val.app_icon_size.some
    THEN icon_data(read_embedded_media(F, manifest.val.app_icon_offset.v,
                                       manifest.val.app_icon_size.v))
    ELSE Ok(None)

icon_checked(F, c) ==
    IF ~c.ok THEN c
    ELSE IF ~c.val THEN Err("No embedded data found", <<>>)
    ELSE icon_from(F, read_manifest(F))

get_embedded_app_icon(F) == icon_checked(F, check_magic_bytes(F))

\* The viewer's export_as_executable: the request's files as tuples, handed
\* to create_embedded_executable.
viewer_export_as_executable(source_exe, request) ==
    create_embedded_executable(source_exe, request.project_json, request.media_files,
                               request.button_files, request.app_icon)

(* ------------------------------------------------------------------ *)
(* Paths and files                                                      *)
(* ------------------------------------------------------------------ *)

\* A path, by the parts its name is formatted from: the fixed prefix, the
\* stem, the extension, the millisecond timestamp and the random suffix.
Path(kind, stem, ext, ts, rnd) ==
    [kind |-> kind, stem |-> stem, ext |-> ext, ts |-> ts, rnd |-> rnd]

\* request.output_path
OutputPath == Path("output", <<>>, <<>>, 0, 0)
\* A file of the user, named by an ExportMediaFile's path.
SourcePath == Path("source", <<100>>, <<109, 112, 52>>, 0, 0)
\* temp_dir.join("temp_icon.ico")
IcoPath == Path("temp_icon", <<>>, <<105, 99, 111>>, 0, 0)

Exists(f, p) == p \in DOMAIN f
WriteFile(f, p, bytes) == [q \in (DOMAIN f) \cup {p} |-> IF q = p THEN bytes ELSE f[q]]
RemoveFile(f, p) == [q \in (DOMAIN f) \ {p} |-> f[q]]
NoFiles == [q \in {} |-> <<>>]

\* for temp_path in paths { let _ = std::fs::remove_file(&temp_path); }
RECURSIVE RemoveFiles(_, _)
RemoveFiles(f, paths) ==
    IF paths = <<>> THEN f ELSE RemoveFiles(RemoveFile(f, Head(paths)), Tail(paths))

(* ------------------------------------------------------------------ *)
(* tutorial-maker lib.rs, video.rs, icon.rs: the export pipeline        *)
(* ------------------------------------------------------------------ *)

\* Path::file_name on a name without a trailing separator: what follows
\* the last '/'.
LastIndex(s, b) ==
    IF \E i \in 1..Len(s) : s[i] = b
    THEN CHOOSE i \in 1..Len(s) : s[i] = b /\ \A j \in (i + 1)..Len(s) : s[j] # b
    ELSE 0

file_name(name) == SubSeq(name, LastIndex(name, 47) + 1, Len(name))

\* Path::extension: None without a file name, for "..", without a '.', or
\* when the only '.' is the first byte; otherwise what follows the last '.'.
has_extension(name) ==
    /\ file_name(name) # <<>>
    /\ file_name(name) # <<46, 46>>
    /\ LastIndex(file_name(name), 46) > 1

extension(name) ==
    IF has_extension(name)
    THEN Some(SubSeq(file_name(name), LastIndex(file_name(name), 46) + 1,
                     Len(file_name(name))))
    ELSE None

\* Path::file_stem: the file name without its extension.
file_stem(name) ==
    IF file_name(name) = <<>> THEN None
    ELSE IF has_extension(name)
    THEN Some(SubSeq(file_name(name), 1, LastIndex(file_name(name), 46) - 1))
    ELSE Some(file_name(name))

\* "viswave_input_{timestamp}_{rand_suffix}.{extension}", "mp4" by default
get_temp_input_path(original_name, timestamp, suffix) ==
    Path("viswave_input", <<>>,
         IF extension(original_name).some THEN extension(original_name).v
         ELSE <<109, 112, 52>>,
         timestamp, suffix)

\* "viswave_compressed_{stem}_{timestamp}.mp4", stem "video" by default
get_temp_compressed_path(original_name, timestamp) ==
    Path("viswave_compressed",
         IF file_stem(original_name).some THEN file_stem(original_name).v
         ELSE <<118, 105, 100, 101, 111>>,
         <<109, 112, 52>>, timestamp, 0)

\* mime_type.starts_with("video/")
is_video_file(mime_type) == StartsAt(mime_type, 1, <<118, 105, 100, 101, 111, 47>>)

MIME_MP4 == <<118, 105, 100, 101, 111, 47, 109, 112, 52>>

\* The three places ffmpeg.exe is looked for, in order.  Only the start of
\* the error text is kept.
find_ffmpeg_path(bundled, dev, onpath) ==
    IF bundled THEN Ok("resource")
    ELSE IF dev THEN Ok("manifest_dir")
    ELSE IF onpath THEN Ok("path")
    ELSE Err("ffmpeg.exe", <<>>)

\* The two places rcedit-x64.exe is looked for, in order.
find_rcedit_path(bundled, dev) ==
    IF bundled THEN Ok("resource")
    ELSE IF dev THEN Ok("manifest_dir")
    ELSE Err("rcedit-x64.exe not found", <<>>)

\* MediaSource
SourceOfPath(p) == [kind |-> "Path", path |-> p]
SourceOfData(d) == [kind |-> "Data", data |-> d]

to_media_source(file) ==
    [id |-> file.id, name |-> file.name, mime_type |-> file.mime_type,
     source |-> IF file.path.some THEN SourceOfPath(file.path.v)
                ELSE IF file.data.some THEN SourceOfData(file.data.v)
                ELSE SourceOfData(<<>>)]

\* compression.as_ref().map(|c| c.enabled).unwrap_or(false)
compression_enabled(compression) == compression.some /\ compression.v.enabled

\* A faulty test: the mime type is not looked at.
should_compress_any_mime(file, compression) == compression_enabled(compression)

should_compress(file, compression) ==
    compression_enabled(compression) /\ is_video_file(file.mime_type)

\* What the transcoder writes for an input: some other bytes.
Transcode(input) == <<102>> \o input

\* What compress_video leaves behind and returns.  outcome is the way the
\* transcoder run went; an input that does not exist fails the first
\* metadata call whatever the outcome.
compress_video(f, input_path, output_path, outcome) ==
    IF ~Exists(f, input_path)
    THEN [fs |-> f, res |-> Err("Failed to get input file size: ", <<>>)]
    ELSE IF outcome = "spawn_failed"
    THEN [fs |-> f, res |-> Err("Failed to spawn FFmpeg: ", <<>>)]
    ELSE IF outcome = "exit_nonzero"
    THEN [fs |-> f, res |-> Err("FFmpeg failed: ", <<>>)]
    ELSE IF outcome = "exit_nonzero_partial"
    THEN [fs |-> WriteFile(f, output_path, <<>>), res |-> Err("FFmpeg failed: ", <<>>)]
    ELSE IF outcome = "no_output"
    THEN [fs |-> f, res |-> Err("Failed to get output file size: ", <<>>)]
    ELSE [fs |-> WriteFile(f, output_path, Transcode(f[input_path])),
          res |-> Ok(output_path)]

CompressOutcomes ==
    {"ok", "spawn_failed", "exit_nonzero", "exit_nonzero_partial", "no_output"}

\* process_media_file_for_export after compress_video returned c: the
\* files, compressed_temp_files (recorded before the call), the tuple.
after_compress(file, recorded, c) ==
    IF c.res.ok
    THEN [fs |-> c.fs,
          compressed_temp_files |-> Append(recorded, c.res.val),
          res |-> Ok([id |-> file.id, name |-> file.name, mime_type |-> MIME_MP4,
                      source |-> SourceOfPath(c.res.val)]),
          outcome |-> "compressed"]
    ELSE [fs |-> c.fs, compressed_temp_files |-> recorded,
          res |-> Ok(to_media_source(file)), outcome |-> "compress_failed"]

\* The file returned as it is.
kept(f, recorded, file) ==
    [fs |-> f, compressed_temp_files |-> recorded, res |-> Ok(to_media_source(file)),
     outcome |-> "kept"]

\* process_media_file_for_export(file, compression, ffmpeg_path,
\* compressed_temp_files) on the files f.  timestamp and suffix are what
\* the clock and rand_suffix give, written whether the temporary input
\* could be written, outcome the way the transcoder run goes.
process_media_file_for_export(f, recorded, file, compression, timestamp, suffix, written, outcome) ==
    IF ~should_compress(file, compression) THEN kept(f, recorded, file)
    ELSE IF file.path.some
    THEN after_compress(file, recorded,
             compress_video(f, file.path.v,
                            get_temp_compressed_path(file.name, timestamp), outcome))
    ELSE IF file.data.some
    THEN IF written
         THEN after_compress(file,
                  Append(recorded, get_temp_input_path(file.name, timestamp, suffix)),
                  compress_video(
                      WriteFile(f, get_temp_input_path(file.name, timestamp, suffix),
                                file.data.v),
                      get_temp_input_path(file.name, timestamp, suffix),
                      get_temp_compressed_path(file.name, timestamp), outcome))
         ELSE [fs |-> f, compressed_temp_files |-> recorded,
               res |-> Err("Failed to write temp input file: ", <<>>),
               outcome |-> "write_failed"]
    ELSE kept(f, recorded, file)

\* What convert_to_ico writes for an image: a stand-in for the six entries.
Ico(image_data) == <<0, 0, 1, 0>> \o image_data

\* What the resource editor leaves of a PE image: the image with the icon
\* resource in it, grown by g bytes inside.
Rcedit(image, ico, g) ==
    SubSeq(image, 1, 2) \o [i \in 1..g |-> 73] \o SubSeq(image, 3, Len(image))

\* The viewer image built into the maker (VIEWER_EXE_PATH).
ViewerImage == <<77, 90, 144>>

\* The bytes of a MediaSource: the data, or the file at the path.
SourceReadable(f, t) == t.source.kind = "Data" \/ Exists(f, t.source.path)
SourceBytes(f, t) == IF t.source.kind = "Data" THEN t.source.data ELSE f[t.source.path]

Resolve(f, tuples) ==
    [i \in 1..Len(tuples) |->
        [id |-> tuples[i].id, name |-> tuples[i].name,
         mime_type |-> tuples[i].mime_type, data |-> SourceBytes(f, tuples[i])]]

\* A faulty start offset: the length of the viewer image as built in.
AppendStartOfBase(output) == Len(ViewerImage)

\* The start offset the appends count from.
AppendStart(output) == Len(output)

\* append_embedded_data: the output opened for append, its current length
\* the first offset, then the regions, the manifest and the footer as
\* create_embedded_executable appends them.  The manifest built and the
\* bytes appended.
append_embedded_data(output, project_json, media, buttons, app_icon) ==
    append_payload(AppendStart(output), project_json, media, buttons, app_icon)

(* ------------------------------------------------------------------ *)
(* State                                                                *)
(* ------------------------------------------------------------------ *)

VARIABLES
    exe,        \* bytes of the running viewer image (get_current_exe_path)
    exe_req,    \* history: the request the running image was packed from
    fs,         \* the other files on disk: path -> bytes
    request,    \* the ExportRequest of the export in progress or finished
    result,     \* the last command's result: [op, id, res, calls]
    open_len,   \* history: length of the output when it was opened for append
    pc,         \* the maker's export_as_executable: the step it is at
    ffmpeg_path,            \* Option<PathBuf>
    compressed_temp_files,  \* Vec<String>
    media_files,            \* the media tuples collected so far
    manifest,               \* Option: the BuildManifest the append built
    trace,      \* history: what was done to the output file, in order
    outcomes    \* history: how the compression stage went, per media file

viewer_vars == <<exe, exe_req>>
maker_vars == <<pc, ffmpeg_path, compressed_temp_files, media_files, manifest, trace,
               outcomes>>
vars == <<exe, exe_req, fs, request, result, open_len, pc, ffmpeg_path,
          compressed_temp_files, media_files, manifest, trace, outcomes>>

NoRequest == [none |-> TRUE]
ArbitraryFile == [arbitrary |-> TRUE]
InfoResult(info) ==
    [op |-> "get_embedded_data_info", id |-> <<>>, res |-> info.res, calls |-> info.calls]
ExportResult(res) ==
    [op |-> "export_as_executable", id |-> <<>>, res |-> res, calls |-> <<>>]
NoResult == [op |-> "none", id |-> <<>>, res |-> Ok(TRUE), calls |-> <<>>]

(* ------------------------------------------------------------------ *)
(* Inputs                                                               *)
(* ------------------------------------------------------------------ *)

\* Most assets of one request, media and buttons together.
MaxAssets == 2
\* Most bytes the resource editor grows the image by.
MaxGrow == 1

ID_x == <<120>>
ID_y == <<121>>
ID_z == <<122>>
Ids == {ID_x, ID_y, ID_z}

MIME_PNG == <<105, 109, 97, 103, 101, 47, 112, 110, 103>>

\* ExportMediaFile of the viewer: id, name, mimeType, data.  Two assets
\* share the id "x"; one is empty and has a double quote in its name.
ViewerFiles ==
    { [id |-> ID_x, name |-> <<97, 46, 112, 110, 103>>, mime_type |-> MIME_PNG,
       data |-> <<137, 80>>],
      [id |-> ID_y, name |-> <<98, 46, 116, 120, 116>>,
       mime_type |-> <<116, 101, 120, 116, 47, 112, 108, 97, 105, 110>>,
       data |-> <<104, 105>>],
      [id |-> ID_x, name |-> <<113, 34, 46, 112, 110, 103>>, mime_type |-> MIME_PNG,
       data |-> <<>>] }

SeqsUpTo(S, n) == UNION {[1..k -> S] : k \in 0..n}

\* The empty document and a JSON string with a two-byte UTF-8 character.
ProjectJsons == {<<>>, <<34, 195, 169, 34>>}
AppIcons == {None, Some(<<137, 80, 78>>)}

ViewerRequests ==
    { [project_json |-> p, media_files |-> m, button_files |-> b, app_icon |-> i] :
        p \in ProjectJsons, i \in AppIcons,
        m \in SeqsUpTo(ViewerFiles, MaxAssets),
        b \in SeqsUpTo(ViewerFiles, MaxAssets) }

\* A bare viewer image ("MZ", 0x90), and a viewer image that was itself
\* packed (project "{}", nothing else).
BareImage == <<77, 90, 144>>
BaseImages ==
    {BareImage, create_embedded_executable(BareImage, <<123, 125>>, <<>>, <<>>, None)}

\* ExportMediaFile of the maker: a video sent as data ("c.mov"), a video
\* sent as a path ("d.mp4"), an image sent as data ("a.png"), a video with
\* neither data nor path ("e.mov"), and a button whose mime type is a
\* video's ("c.mov", sent as data).
VideoData ==
    [id |-> ID_x, name |-> <<99, 46, 109, 111, 118>>,
     mime_type |-> <<118, 105, 100, 101, 111, 47, 113, 117, 105, 99, 107, 116, 105, 109, 101>>,
     data |-> Some(<<1, 2>>), path |-> None]
VideoPath ==
    [id |-> ID_y, name |-> <<100, 46, 109, 112, 52>>, mime_type |-> MIME_MP4,
     data |-> None, path |-> Some(SourcePath)]
ImageData ==
    [id |-> ID_z, name |-> <<97, 46, 112, 110, 103>>, mime_type |-> MIME_PNG,
     data |-> Some(<<137, 80>>), path |-> None]
VideoBare ==
    [id |-> ID_z, name |-> <<101, 46, 109, 111, 118>>,
     mime_type |-> <<118, 105, 100, 101, 111, 47, 113, 117, 105, 99, 107, 116, 105, 109, 101>>,
     data |-> None, path |-> None]
VideoButton ==
    [id |-> ID_x, name |-> <<99, 46, 109, 111, 118>>,
     mime_type |-> <<118, 105, 100, 101, 111, 47, 113, 117, 105, 99, 107, 116, 105, 109, 101>>,
     data |-> Some(<<7>>), path |-> None]
MakerFiles == {VideoData, VideoPath, ImageData, VideoBare}
ButtonFiles == {VideoButton}

Compressions == {None, Some([enabled |-> FALSE]), Some([enabled |-> TRUE])}

MakerRequests ==
    { [project_json |-> <<123, 125>>, media_files |-> m, button_files |-> b,
       app_icon |-> i, compression |-> c] :
        i \in AppIcons, c \in Compressions,
        m \in SeqsUpTo(MakerFiles, MaxAssets),
        b \in SeqsUpTo(ButtonFiles, MaxAssets) }

\* Millisecond timestamps the clock gives, and random suffixes (the code
\* draws them from 0..9999).
Timestamps == {0, 1}
Suffixes == {0, 1}

\* The user's file at SourcePath.
SourceFiles == [q \in {SourcePath} |-> <<3, 4, 5>>]

(* ------------------------------------------------------------------ *)
(* The viewer: one export from the running image, the launch of its     *)
(* product, and the read commands issued in the product                 *)
(* ------------------------------------------------------------------ *)

MakerIdle ==
    /\ pc = "idle"
    /\ ffmpeg_path = None
    /\ compressed_temp_files = <<>>
    /\ media_files = <<>>
    /\ manifest = None
    /\ trace = <<>>
    /\ outcomes = <<>>

Init ==
    /\ exe \in BaseImages
    /\ exe_req = NoRequest
    /\ fs = NoFiles
    /\ request = NoRequest
    /\ result = NoResult
    /\ open_len = 0
    /\ MakerIdle

\* export_as_executable(request) of the viewer.  The copy of the running
\* image can fail; then nothing is written.
ExportAsExecutable ==
    /\ request = NoRequest
    /\ exe_req = NoRequest
    /\ \E r \in ViewerRequests, copied \in BOOLEAN :
        /\ Len(r.media_files) + Len(r.button_files) <= MaxAssets
        /\ request' = r
        /\ IF copied
           THEN /\ fs' = WriteFile(fs, OutputPath, viewer_export_as_executable(exe, r))
                /\ open_len' = Len(exe)
                /\ result' = ExportResult(Ok(TRUE))
           ELSE /\ result' = ExportResult(Err("Failed to copy exe: ", <<>>))
                /\ UNCHANGED <<fs, open_len>>
    /\ UNCHANGED <<viewer_vars, maker_vars>>

\* The exported executable is started: it is now the running image.
Launch ==
    /\ Exists(fs, OutputPath)
    /\ exe_req = NoRequest
    /\ exe' = fs[OutputPath]
    /\ exe_req' = request
    /\ result' = NoResult
    /\ UNCHANGED <<fs, request, open_len, maker_vars>>

GetEmbeddedDataInfo ==
    /\ exe_req # NoRequest
    /\ result' = InfoResult(get_embedded_info(exe))
    /\ UNCHANGED <<viewer_vars, fs, request, open_len, maker_vars>>

GetEmbeddedProjectJson ==
    /\ exe_req # NoRequest
    /\ result' = [op |-> "get_embedded_project_json", id |-> <<>>,
                  res |-> get_embedded_project_json(exe), calls |-> <<>>]
    /\ UNCHANGED <<viewer_vars, fs, request, open_len, maker_vars>>

GetEmbeddedMediaData ==
    /\ exe_req # NoRequest
    /\ \E id \in Ids :
        result' = [op |-> "get_embedded_media_data", id |-> id,
                   res |-> get_embedded_media_data(exe, id), calls |-> <<>>]
    /\ UNCHANGED <<viewer_vars, fs, request, open_len, maker_vars>>

GetEmbeddedAppIcon ==
    /\ exe_req # NoRequest
    /\ result' = [op |-> "get_embedded_app_icon", id |-> <<>>,
                  res |-> get_embedded_app_icon(exe), calls |-> <<>>]
    /\ UNCHANGED <<viewer_vars, fs, request, open_len, maker_vars>>

ReadCommand ==
    \/ GetEmbeddedDataInfo
    \/ GetEmbeddedProjectJson
    \/ GetEmbeddedMediaData
    \/ GetEmbeddedAppIcon

Next ==
    \/ ExportAsExecutable
    \/ Launch
    \/ ReadCommand

Spec == Init /\ [][Next]_vars

(* ------------------------------------------------------------------ *)
(* The reader on any file: the running image is a file of any content   *)
(* ------------------------------------------------------------------ *)

\* Manifest JSON texts: "{}", the array form of an empty manifest
\* ([0,0,[],[],null,null]), the array form of a manifest whose project
\* document lies beyond the file ([200,9,[],[],null,null]), and two bytes
\* that are not UTF-8.
JSON_EMPTY_OBJECT == <<123, 125>>
JSON_ARRAY_FORM ==
    <<91, 48, 44, 48, 44, 91, 93, 44, 91, 93, 44>> \o T_null \o <<44>> \o T_null \o <<93>>
JSON_ARRAY_BEYOND ==
    <<91, 50, 48, 48, 44, 57, 44, 91, 93, 44, 91, 93, 44>> \o T_null \o <<44>> \o T_null
    \o <<93>>
NOT_UTF8 == <<255, 254>>

\* What a file holds before its last 17 bytes.
Bodies == {<<>>, BareImage, JSON_EMPTY_OBJECT, JSON_ARRAY_FORM, JSON_ARRAY_BEYOND, NOT_UTF8}

\* The 8 bytes before the last 9: sizes 0, 2, 21, 23, 200, 2^24, i64::MAX,
\* 2^63 and u64::MAX.
SizeWords ==
    { to_le_bytes(0), to_le_bytes(2), to_le_bytes(Len(JSON_ARRAY_FORM)),
      to_le_bytes(Len(JSON_ARRAY_BEYOND)), to_le_bytes(200),
      <<0, 0, 0, 1, 0, 0, 0, 0>>,
      <<255, 255, 255, 255, 255, 255, 255, 127>>,
      <<0, 0, 0, 0, 0, 0, 0, 128>>,
      <<255, 255, 255, 255, 255, 255, 255, 255>> }

\* The last 9 bytes: the magic, "VISTUT_V2", "XISTUT_V1".
Tails ==
    { MAGIC_BYTES,
      <<86, 73, 83, 84, 85, 84, 95, 86, 50>>,
      <<88, 73, 83, 84, 85, 84, 95, 86, 49>> }

\* Files shorter than 17 bytes: empty, the magic alone, 16 bytes ending
\* with the magic, 16 bytes ending otherwise.
ShortFiles ==
    { <<>>, BareImage, MAGIC_BYTES,
      <<0, 0, 0, 0, 0, 0, 0>> \o MAGIC_BYTES,
      <<2, 0, 0, 0, 0, 0, 0>> \o <<88, 73, 83, 84, 85, 84, 95, 86, 49>> }

AnyFiles ==
    ShortFiles \cup {b \o w \o t : b \in Bodies, w \in SizeWords, t \in Tails}

InitReader ==
    /\ exe \in AnyFiles
    /\ exe_req = ArbitraryFile
    /\ fs = NoFiles
    /\ request = NoRequest
    /\ result = NoResult
    /\ open_len = 0
    /\ MakerIdle

NextReader ==
    \/ GetEmbeddedDataInfo
    \/ GetEmbeddedProjectJson
    \/ GetEmbeddedMediaData
    \/ GetEmbeddedAppIcon

SpecReader == InitReader /\ [][NextReader]_vars

(* ------------------------------------------------------------------ *)
(* The maker: one run of export_as_executable, step by step             *)
(* ------------------------------------------------------------------ *)

InitExport ==
    /\ exe = BareImage
    /\ exe_req = NoRequest
    /\ fs = SourceFiles
    /\ request = NoRequest
    /\ result = NoResult
    /\ open_len = 0
    /\ MakerIdle

\* The command is received; the transcoder is looked for when compression
\* is enabled.
StartExport ==
    /\ pc = "idle"
    /\ \E r \in MakerRequests :
        /\ Len(r.media_files) + Len(r.button_files) <= MaxAssets
        /\ request' = r
        /\ IF compression_enabled(r.compression)
           THEN \E bundled \in BOOLEAN, dev \in BOOLEAN, onpath \in BOOLEAN :
                    IF find_ffmpeg_path(bundled, dev, onpath).ok
                    THEN /\ ffmpeg_path' = Some(find_ffmpeg_path(bundled, dev, onpath).val)
                         /\ pc' = "media"
                         /\ result' = NoResult
                    ELSE /\ ffmpeg_path' = None
                         /\ pc' = "done"
                         /\ result' = ExportResult(find_ffmpeg_path(bundled, dev, onpath))
           ELSE /\ ffmpeg_path' = None
                /\ pc' = "media"
                /\ result' = NoResult
    /\ UNCHANGED <<viewer_vars, fs, open_len, compressed_temp_files, media_files, manifest,
                   trace, outcomes>>

\* The next media file of the request.
NextFile == request.media_files[Len(media_files) + 1]

\* What one turn of the map does with what the function returned: the
\* tuple is collected, or the error ends the command.
Collected(p) ==
    /\ fs' = p.fs
    /\ compressed_temp_files' = p.compressed_temp_files
    /\ outcomes' = Append(outcomes, p.outcome)
    /\ IF p.res.ok
       THEN /\ media_files' = Append(media_files, p.res.val)
            /\ UNCHANGED <<result, pc>>
       ELSE /\ result' = ExportResult(p.res)
            /\ pc' = "done"
            /\ UNCHANGED media_files

\* One turn of the map over request.media_files.
ProcessMediaFile ==
    /\ pc = "media"
    /\ Len(media_files) < Len(request.media_files)
    /\ \E timestamp \in Timestamps, suffix \in Suffixes, written \in BOOLEAN,
          outcome \in CompressOutcomes :
        Collected(process_media_file_for_export(fs, compressed_temp_files, NextFile,
                                                request.compression, timestamp, suffix,
                                                written, outcome))
    /\ UNCHANGED <<viewer_vars, request, open_len, ffmpeg_path, manifest, trace>>

\* The button files are mapped, then prepare_base_executable copies the
\* viewer image to the output path.
PrepareBaseExecutable ==
    /\ pc = "media"
    /\ Len(media_files) = Len(request.media_files)
    /\ \E copied \in BOOLEAN :
        IF copied
        THEN /\ fs' = WriteFile(fs, OutputPath, ViewerImage)
             /\ trace' = Append(trace, "copy")
             /\ pc' = IF request.app_icon.some THEN "icon" ELSE "append"
             /\ UNCHANGED result
        ELSE /\ result' = ExportResult(Err("Failed to copy viewer: ", <<>>))
             /\ pc' = "done"
             /\ UNCHANGED <<fs, trace>>
    /\ UNCHANGED <<viewer_vars, request, open_len, ffmpeg_path, compressed_temp_files,
                   media_files, manifest, outcomes>>

\* set_executable_icon: convert_to_ico, find_rcedit_path, set_exe_icon, and
\* the removal of temp_icon.ico when all three succeeded.
SetExecutableIcon ==
    /\ pc = "icon"
    /\ \E converted \in {"ok", "load", "create"}, bundled \in BOOLEAN, dev \in BOOLEAN,
          edited \in {"ok", "execute", "exit"}, g \in 0..MaxGrow :
        IF converted = "load"
        THEN /\ result' = ExportResult(Err("Failed to load image: ", <<>>))
             /\ pc' = "done"
             /\ UNCHANGED <<fs, trace>>
        ELSE IF converted = "create"
        THEN /\ result' = ExportResult(Err("Failed to create ICO file: ", <<>>))
             /\ pc' = "done"
             /\ UNCHANGED <<fs, trace>>
        ELSE IF ~find_rcedit_path(bundled, dev).ok
        THEN /\ result' = ExportResult(find_rcedit_path(bundled, dev))
             /\ pc' = "done"
             /\ fs' = WriteFile(fs, IcoPath, Ico(request.app_icon.v))
             /\ trace' = Append(trace, "convert")
        ELSE IF edited = "execute"
        THEN /\ result' = ExportResult(Err("Failed to execute rcedit: ", <<>>))
             /\ pc' = "done"
             /\ fs' = WriteFile(fs, IcoPath, Ico(request.app_icon.v))
             /\ trace' = Append(trace, "convert")
        ELSE IF edited = "exit"
        THEN /\ result' = ExportResult(Err("rcedit failed: ", <<>>))
             /\ pc' = "done"
             /\ fs' = WriteFile(fs, IcoPath, Ico(request.app_icon.v))
             /\ trace' = Append(trace, "convert")
        ELSE /\ fs' = WriteFile(fs, OutputPath,
                                Rcedit(fs[OutputPath], Ico(request.app_icon.v), g))
             /\ trace' = trace \o <<"convert", "patch">>
             /\ pc' = "append"
             /\ UNCHANGED result
    /\ UNCHANGED <<viewer_vars, request, open_len, ffmpeg_path, compressed_temp_files,
                   media_files, manifest, outcomes>>

\* Every source of the tuples can be read.
AllReadable(f, tuples) == \A i \in 1..Len(tuples) : SourceReadable(f, tuples[i])

\* request.button_files.into_iter().map(to_media_source).collect()
button_files == [i \in 1..Len(request.button_files) |->
                    to_media_source(request.button_files[i])]

\* The output after the append that built payload.
Appends(payload) ==
    /\ fs' = WriteFile(fs, OutputPath, fs[OutputPath] \o payload.bytes)
    /\ manifest' = Some(payload.manifest)

\* append_embedded_data on the output; it returns no temporary file.
AppendEmbeddedData ==
    /\ pc = "append"
    /\ \E opened \in BOOLEAN :
        IF opened /\ AllReadable(fs, media_files) /\ AllReadable(fs, button_files)
        THEN /\ Appends(append_embedded_data(fs[OutputPath], request.project_json,
                                             Resolve(fs, media_files),
                                             Resolve(fs, button_files),
                                             request.app_icon))
             /\ open_len' = Len(fs[OutputPath])
             /\ trace' = trace \o <<"open", "payload", "magic">>
             /\ pc' = "cleanup"
             /\ UNCHANGED result
        ELSE /\ result' = ExportResult(Err("Failed to append: ", <<>>))
             /\ pc' = "done"
             /\ UNCHANGED <<fs, open_len, trace, manifest>>
    /\ UNCHANGED <<viewer_vars, request, ffmpeg_path, compressed_temp_files, media_files,
                   outcomes>>

\* The temporary files are removed and the command returns Ok(()).
Cleanup ==
    /\ pc = "cleanup"
    /\ fs' = RemoveFiles(fs, compressed_temp_files)
    /\ result' = ExportResult(Ok(TRUE))
    /\ pc' = "done"
    /\ UNCHANGED <<viewer_vars, request, open_len, ffmpeg_path, compressed_temp_files,
                   media_files, manifest, trace, outcomes>>

NextExport ==
    \/ StartExport
    \/ ProcessMediaFile
    \/ PrepareBaseExecutable
    \/ SetExecutableIcon
    \/ AppendEmbeddedData
    \/ Cleanup

SpecExport == InitExport /\ [][NextExport]_vars

(* ------------------------------------------------------------------ *)
(* Properties of the packed output (Spec)                               *)
(* ------------------------------------------------------------------ *)

\* The viewer's export has just returned.
Exported ==
    /\ result.op = "export_as_executable"
    /\ result.res.ok
    /\ pc = "idle"
    /\ Exists(fs, OutputPath)

\* Where the manifest JSON begins, from the footer: the size word is the
\* 8 bytes before the last 9.
SizeWord(F) == from_le_bytes(SubSeq(F, Len(F) - 16, Len(F) - 9)).v
ManifestStart(F) == Len(F) - (MAGIC_SIZE + MANIFEST_SIZE_BYTES) - SizeWord(F)
ManifestJson(F) == SubSeq(F, ManifestStart(F) + 1, Len(F) - (MAGIC_SIZE + MANIFEST_SIZE_BYTES))

\* The regions a manifest records, in the order media, buttons, icon,
\* project document.
EntryRegions(entries) ==
    [i \in 1..Len(entries) |-> [offset |-> entries[i].offset, size |-> entries[i].size]]
Regions(m) ==
    EntryRegions(m.media) \o EntryRegions(m.buttons)
    \o (IF m.app_icon_offset.some /\ m.app_icon_size.some
        THEN <<[offset |-> m.app_icon_offset.v, size |-> m.app_icon_size.v]>>
        ELSE <<>>)
    \o <<[offset |-> m.project_json_offset, size |-> m.project_json_size]>>

UniqueIds(files) ==
    \A i \in 1..Len(files), j \in 1..Len(files) : files[i].id = files[j].id => i = j

\* Each entry's range holds the bytes of the input file with its id, and
\* each input file has an entry.
ListReadsBack(F, entries, files) ==
    /\ Len(entries) = Len(files)
    /\ \A j \in 1..Len(files) : \E i \in 1..Len(entries) : entries[i].id = files[j].id
    /\ \A i \in 1..Len(entries), j \in 1..Len(files) :
        entries[i].id = files[j].id =>
            read_embedded_media(F, entries[i].offset, entries[i].size) = Ok(files[j].data)

PayloadReadsBack(F, read, r) ==
    /\ read.ok
    /\ ListReadsBack(F, read.val.media, r.media_files)
    /\ ListReadsBack(F, read.val.buttons, r.button_files)
    /\ read_embedded_project(F, read.val) = Ok(r.project_json)
    /\ r.app_icon.some => get_embedded_app_icon(F) = Ok(r.app_icon)

\* C1: round trip.  After an export of a request whose ids are unique
\* within each list, the manifest read from the output has, for each list,
\* one entry per input file, each entry's byte range reads back the bytes
\* of the input file with the same id, the project document reads back the
\* input string, and the icon reads back the input icon when one was
\* supplied.  In the launched product the project and icon commands return
\* the same.
C1_RoundTrip ==
    /\ (Exported /\ UniqueIds(request.media_files) /\ UniqueIds(request.button_files))
        => PayloadReadsBack(fs[OutputPath], read_manifest(fs[OutputPath]), request)
    /\ (result.op = "get_embedded_project_json" /\ exe_req # ArbitraryFile)
        => result.res = Ok(exe_req.project_json)
    /\ (result.op = "get_embedded_app_icon" /\ exe_req # ArbitraryFile)
        => result.res = Ok(exe_req.app_icon)

\* A media file, a button file, an icon and a non-empty project were
\* packed and read back.
C1_Witness ==
    /\ Exported
    /\ Len(request.media_files) = 1 /\ Len(request.button_files) = 1
    /\ request.media_files[1].data # <<>>
    /\ request.button_files[1].data # request.media_files[1].data
    /\ request.app_icon.some
    /\ request.project_json # <<>>
    /\ PayloadReadsBack(fs[OutputPath], read_manifest(fs[OutputPath]), request)

\* The statement of C4 as first made: every recorded offset is strictly
\* less than the offset where the manifest JSON begins, and every range
\* ends at or before it.
OffsetsStrictlyBefore(F, read) ==
    /\ read.ok
    /\ \A i \in 1..Len(Regions(read.val)) :
        /\ Regions(read.val)[i].offset < ManifestStart(F)
        /\ Regions(read.val)[i].offset + Regions(read.val)[i].size
               <= ManifestStart(F)

C4_OffsetsStrictlyBeforeManifest ==
    Exported => OffsetsStrictlyBefore(fs[OutputPath], read_manifest(fs[OutputPath]))

\* Region i and every region after it are empty.
EmptyFrom(R, i) == \A j \in i..Len(R) : R[j].size = 0

OffsetsBefore(F, read) ==
    /\ read.ok
    /\ \A i \in 1..Len(Regions(read.val)) :
        /\ Regions(read.val)[i].offset + Regions(read.val)[i].size
               <= ManifestStart(F)
        /\ IF EmptyFrom(Regions(read.val), i)
           THEN Regions(read.val)[i].offset = ManifestStart(F)
           ELSE Regions(read.val)[i].offset < ManifestStart(F)

\* C4: in every packed output every range recorded in the manifest ends at
\* or before the offset where the manifest JSON begins, and every recorded
\* offset is strictly less than it unless the region and every region
\* after it is empty, in which case the offset equals it (the offset of an
\* empty project document always does).
C4_OffsetsBeforeManifest ==
    Exported => OffsetsBefore(fs[OutputPath], read_manifest(fs[OutputPath]))

\* An output with an empty project document after an empty asset.
C4_Witness ==
    /\ Exported
    /\ request.project_json = <<>>
    /\ Len(request.media_files) = 2
    /\ request.media_files[1].data # <<>>
    /\ request.media_files[2].data = <<>>
    /\ OffsetsBefore(fs[OutputPath], read_manifest(fs[OutputPath]))

\* The regions follow one another from start, in the order of the
\* request, and the manifest JSON follows the project document.
Contiguous(F, read, r, start) ==
    /\ read.ok
    /\ Len(read.val.media) = Len(r.media_files)
    /\ \A i \in 1..Len(r.media_files) :
        /\ read.val.media[i].id = r.media_files[i].id
        /\ read.val.media[i].size = Len(r.media_files[i].data)
    /\ Len(read.val.buttons) = Len(r.button_files)
    /\ \A i \in 1..Len(r.button_files) :
        /\ read.val.buttons[i].id = r.button_files[i].id
        /\ read.val.buttons[i].size = Len(r.button_files[i].data)
    /\ read.val.app_icon_offset.some = r.app_icon.some
    /\ read.val.app_icon_size.some = r.app_icon.some
    /\ Regions(read.val)[1].offset = start
    /\ \A i \in 2..Len(Regions(read.val)) :
        Regions(read.val)[i].offset
            = Regions(read.val)[i - 1].offset + Regions(read.val)[i - 1].size
    /\ read.val.project_json_offset + read.val.project_json_size
           = ManifestStart(F)

\* C5: in every packed output the regions are contiguous and ordered: in
\* the order media entries (input order), button entries (input order),
\* icon (if supplied), project document, the first region's offset is the
\* file's length when it was opened for append, each later region's offset
\* is the previous region's offset plus its size, the manifest JSON begins
\* at projectJsonOffset + projectJsonSize, and the 17-byte footer follows
\* the manifest JSON.
C5_RegionsContiguous ==
    Exported => Contiguous(fs[OutputPath], read_manifest(fs[OutputPath]), request, open_len)

\* Media, a button and an icon packed onto an image that was itself packed.
C5_Witness ==
    /\ Exported
    /\ open_len > Len(BareImage)
    /\ Len(request.media_files) = 1 /\ Len(request.button_files) = 1
    /\ request.media_files[1].data # <<>>
    /\ request.app_icon.some
    /\ Contiguous(fs[OutputPath], read_manifest(fs[OutputPath]), request, open_len)

\* The top-level object of the manifest JSON as written.
WrittenFields(v, r) ==
    /\ v.ok
    /\ v.val.t = "obj"
    /\ IF r.app_icon.some
       THEN /\ Count(v.val.m, K_appIconOffset) = 1
            /\ Count(v.val.m, K_appIconSize) = 1
            /\ is_u64(Get(v.val.m, K_appIconOffset))
            /\ is_u64(Get(v.val.m, K_appIconSize))
       ELSE /\ Count(v.val.m, K_appIconOffset) = 0
            /\ Count(v.val.m, K_appIconSize) = 0
            /\ Len(v.val.m) = 4
            /\ \A i \in 1..4 : Count(v.val.m, RequiredKeys[i]) = 1

\* C8: when no icon is supplied the manifest JSON written has no
\* appIconOffset and no appIconSize field, only the four fields
\* projectJsonOffset, projectJsonSize, media, buttons; when an icon is
\* supplied both fields are there with numbers.
C8_IconFieldsAbsentWithoutIcon ==
    Exported => WrittenFields(ParseValue(ManifestJson(fs[OutputPath]), 1), request)

\* What the lookup is to return for a request's lists: the first media
\* file with the id, else the first button file with it, else the error.
FirstWith(files, id) == files[CHOOSE i \in Hits(files, id) : \A j \in Hits(files, id) : i <= j]
ExpectedMedia(r, id) ==
    IF Hits(r.media_files, id) # {} THEN Ok(FirstWith(r.media_files, id).data)
    ELSE IF Hits(r.button_files, id) # {} THEN Ok(FirstWith(r.button_files, id).data)
    ELSE Err("Media not found: ", id)

\* C10: the asset lookup returns the bytes of the first media entry with
\* the requested id if there is one, otherwise the bytes of the first
\* button entry with that id if there is one, otherwise it fails with
\* "Media not found: {id}".  The manifest's entries are those of the
\* request the image was packed from, in the request's order.
C10_LookupMediaThenButtons ==
    (result.op = "get_embedded_media_data" /\ exe_req # ArbitraryFile)
        => result.res = ExpectedMedia(exe_req, result.id)

\* An id in both lists, with different bytes, resolved to the media entry.
C10_Witness ==
    /\ result.op = "get_embedded_media_data"
    /\ exe_req # ArbitraryFile
    /\ Hits(exe_req.media_files, result.id) # {}
    /\ Hits(exe_req.button_files, result.id) # {}
    /\ FirstWith(exe_req.button_files, result.id).data
           # FirstWith(exe_req.media_files, result.id).data
    /\ result.res = Ok(FirstWith(exe_req.media_files, result.id).data)

(* ------------------------------------------------------------------ *)
(* Properties of the reader on any file (SpecReader)                    *)
(* ------------------------------------------------------------------ *)

EndsWithMagic(F) ==
    Len(F) >= MAGIC_SIZE /\ SubSeq(F, Len(F) - MAGIC_SIZE + 1, Len(F)) = MAGIC_BYTES
HasFooter(F) == Len(F) >= MAGIC_SIZE + MANIFEST_SIZE_BYTES /\ EndsWithMagic(F)

NoEmbeddedData == Ok([has_embedded_data |-> FALSE, manifest |-> None])

\* C6: check_magic_bytes returns true exactly when the file has at least
\* 17 bytes and its last 9 are the magic, and false (not an error)
\* otherwise; get_embedded_info then returns hasEmbeddedData = false with
\* no manifest and does not call read_manifest.
C6_MagicCheck ==
    /\ check_magic_bytes(exe) = Ok(HasFooter(exe))
    /\ (result.op = "get_embedded_data_info" /\ ~HasFooter(exe))
        => (result.res = NoEmbeddedData /\ result.calls = <<"check_magic_bytes">>)

\* A file shorter than 17 bytes that ends with the magic, reported as
\* having no embedded data.
C6_Witness ==
    /\ exe_req = ArbitraryFile
    /\ result.op = "get_embedded_data_info"
    /\ Len(exe) < MAGIC_SIZE + MANIFEST_SIZE_BYTES
    /\ EndsWithMagic(exe)
    /\ check_magic_bytes(exe) = Ok(FALSE)
    /\ result.res = NoEmbeddedData

\* The statement of C7 as first made: for a file the packer did not
\* produce, whatever it holds, get_embedded_info returns
\* hasEmbeddedData = false and no error.
C7_ForeignFileHasNoData ==
    (result.op = "get_embedded_data_info" /\ exe_req = ArbitraryFile)
        => result.res = NoEmbeddedData

\* C7: get_embedded_info returns hasEmbeddedData = false without an error
\* for exactly the files that are shorter than 17 bytes or do not end with
\* the magic; for a file of 17 bytes or more that ends with the magic the
\* outcome is that of reading the manifest: hasEmbeddedData = true when
\* it can be read, and otherwise a failure, never hasEmbeddedData = false.
C7_NoDataExactlyWithoutFooter ==
    (result.op = "get_embedded_data_info" /\ exe_req = ArbitraryFile)
        => ((result.res = NoEmbeddedData) <=> ~HasFooter(exe))

\* A file of 17 bytes or more with other last bytes, and no error.
C7_Witness ==
    /\ exe_req = ArbitraryFile
    /\ result.op = "get_embedded_data_info"
    /\ Len(exe) >= MAGIC_SIZE + MANIFEST_SIZE_BYTES
    /\ ~EndsWithMagic(exe)
    /\ result.res = NoEmbeddedData

(* ------------------------------------------------------------------ *)
(* Properties of the maker's export (SpecExport)                        *)
(* ------------------------------------------------------------------ *)

\* The maker's export returned Ok(()).
Succeeded == pc = "done" /\ result.res.ok

\* The file ends with the JSON text json, the 8-byte size of that text
\* and the magic.
EndsWith(F, json) ==
    /\ Len(F) >= MAGIC_SIZE + MANIFEST_SIZE_BYTES + Len(json)
    /\ SubSeq(F, Len(F) - MAGIC_SIZE + 1, Len(F)) = MAGIC_BYTES
    /\ SubSeq(F, Len(F) - 16, Len(F) - 9) = to_le_bytes(Len(json))
    /\ SubSeq(F, Len(F) - 16 - Len(json), Len(F) - 17) = json

TailIsFooter(F, m) == EndsWith(F, to_string(m))

\* C2: after every successful export the last 9 bytes of the output are
\* the magic and the 8 bytes before them are the size of the manifest
\* JSON, which sits right before them; writing the magic is the last
\* thing done to the output.
C2_MagicAtTail ==
    Succeeded =>
        /\ Exists(fs, OutputPath)
        /\ manifest.some
        /\ TailIsFooter(fs[OutputPath], manifest.v)
        /\ trace # <<>> /\ trace[Len(trace)] = "magic"

\* A successful export with an icon and a compressed video.
C2_Witness ==
    /\ Succeeded
    /\ request.app_icon.some
    /\ \E i \in 1..Len(outcomes) : outcomes[i] = "compressed"
    /\ manifest.some
    /\ TailIsFooter(fs[OutputPath], manifest.v)

\* The output has its payload.
Appended == trace # <<>> /\ trace[Len(trace)] = "magic"

\* C3: of the steps on the output, the copy of the viewer image is the
\* first; when an icon is supplied the conversion and the resource patch
\* are done before the output is opened for append; and the offset of the
\* first region is the output's length when it was opened for append,
\* whatever the patch added to the image.
C3_PatchThenAppend ==
    /\ trace # <<>> => trace[1] = "copy"
    /\ \A i \in 1..Len(trace) :
        (trace[i] = "open" /\ request.app_icon.some)
            => \E j \in 1..(i - 1), k \in 1..(i - 1) :
                   j < k /\ trace[j] = "convert" /\ trace[k] = "patch"
    /\ \A i \in 1..Len(trace), j \in 1..Len(trace) :
        (trace[i] \in {"copy", "convert", "patch"} /\ trace[j] \in {"open", "payload", "magic"})
            => i < j
    /\ Appended => (manifest.some /\ Regions(manifest.v)[1].offset = open_len)

\* The patch grew the image and the first offset is the grown length.
C3_Witness ==
    /\ Appended
    /\ request.app_icon.some
    /\ open_len > Len(ViewerImage)
    /\ manifest.some
    /\ Regions(manifest.v)[1].offset = open_len

\* C9: a failure in the compression stage of a video (the temporary input
\* cannot be written, the transcoder cannot be started, it exits non-zero,
\* the output's size cannot be read) does not end the export: the file's
\* tuple is collected with its original source and mime type.
C9_CompressionFailureKeepsOriginal ==
    \A i \in 1..Len(outcomes) :
        outcomes[i] \in {"write_failed", "compress_failed"}
            => /\ Len(media_files) >= i
               /\ media_files[i] = to_media_source(request.media_files[i])
               /\ ~(pc = "done" /\ ~result.res.ok /\ Len(media_files) < Len(outcomes))

\* The temporary paths of the pipeline: the temporary video inputs, the
\* compressor's outputs and temp_icon.ico.
TempKinds == {"viswave_input", "viswave_compressed", "temp_icon"}
TempFilesLeft(f) == {p \in DOMAIN f : p.kind \in TempKinds}

\* C11: when the export has ended, in success or in failure at any step,
\* every temporary path allocated during the run has been removed: no
\* temporary video input, compressor output or temporary ICO file is left
\* on disk (a removal that is attempted succeeds here, so a file that is
\* left is a path whose removal was not attempted).
C11_TempFilesRemoved ==
    pc = "done" => TempFilesLeft(fs) = {}

(* ------------------------------------------------------------------ *)
(* Further properties of the packed output (Spec)                       *)
(* ------------------------------------------------------------------ *)

\* The BuildManifest the packer built for request r on a file of length
\* file_len.
BuiltManifest(file_len, r) ==
    append_payload(file_len, r.project_json, r.media_files, r.button_files,
                   r.app_icon).manifest

\* The size word of F is the length of json, json is what lies before the
\* footer, and read_manifest returns built.
ManifestReadsBack(F, built, json) ==
    /\ SubSeq(F, Len(F) - 16, Len(F) - 9) = to_le_bytes(Len(json))
    /\ SizeWord(F) = Len(json)
    /\ ManifestJson(F) = json
    /\ read_manifest(F) = Ok(built)

\* C12: in every packed output the 8-byte little-endian word before the
\* magic is the byte length of the manifest JSON that was written, the
\* bytes of that length before the footer are that JSON, and read_manifest
\* returns a manifest equal to the one the packer built, field by field
\* and entry by entry in order.
C12_ManifestSizeAndContent ==
    Exported =>
        ManifestReadsBack(fs[OutputPath], BuiltManifest(open_len, request),
                          to_string(BuiltManifest(open_len, request)))

\* An output with a button entry, another entry and an icon, whose
\* manifest is longer than 200 bytes.
C12_Witness ==
    /\ Exported
    /\ Len(request.media_files) + Len(request.button_files) = MaxAssets
    /\ request.button_files # <<>>
    /\ request.app_icon.some
    /\ SizeWord(fs[OutputPath]) > 200
    /\ read_manifest(fs[OutputPath]) = Ok(BuiltManifest(open_len, request))

(* ------------------------------------------------------------------ *)
(* The helper lookups on any layout of the helper binaries (SpecLookup) *)
(* ------------------------------------------------------------------ *)

\* "ffmpeg", "rcedit-x64", "exe"
NAME_FFMPEG == <<102, 102, 109, 112, 101, 103>>
NAME_RCEDIT == <<114, 99, 101, 100, 105, 116, 45, 120, 54, 52>>
EXT_EXE == <<101, 120, 101>>

\* The three places a helper binary can be: resources/<name> under the
\* resource base directory, resources/<name> under CARGO_MANIFEST_DIR, and
\* a directory of the host PATH.
BundledPath(name) == Path("resource_dir", name, EXT_EXE, 0, 0)
DevPath(name) == Path("manifest_dir", name, EXT_EXE, 0, 0)
HostPath(name) == Path("host_path", name, EXT_EXE, 0, 0)

HelperPaths ==
    { BundledPath(NAME_FFMPEG), DevPath(NAME_FFMPEG), HostPath(NAME_FFMPEG),
      BundledPath(NAME_RCEDIT), DevPath(NAME_RCEDIT), HostPath(NAME_RCEDIT) }

\* Any layout: each helper is present or not at each place.
InitLookup ==
    /\ exe = BareImage
    /\ exe_req = NoRequest
    /\ fs \in {[p \in S |-> <<77, 90>>] : S \in SUBSET HelperPaths}
    /\ request = NoRequest
    /\ result = NoResult
    /\ open_len = 0
    /\ MakerIdle

\* find_ffmpeg_path(&app) on the files as they are.
FindFfmpegPath ==
    /\ result' = [op |-> "find_ffmpeg_path", id |-> NAME_FFMPEG,
                  res |-> find_ffmpeg_path(Exists(fs, BundledPath(NAME_FFMPEG)),
                                           Exists(fs, DevPath(NAME_FFMPEG)),
                                           Exists(fs, HostPath(NAME_FFMPEG))),
                  calls |-> <<>>]
    /\ UNCHANGED <<viewer_vars, fs, request, open_len, maker_vars>>

\* find_rcedit_path(&app) on the files as they are.
FindRceditPath ==
    /\ result' = [op |-> "find_rcedit_path", id |-> NAME_RCEDIT,
                  res |-> find_rcedit_path(Exists(fs, BundledPath(NAME_RCEDIT)),
                                           Exists(fs, DevPath(NAME_RCEDIT))),
                  calls |-> <<>>]
    /\ UNCHANGED <<viewer_vars, fs, request, open_len, maker_vars>>

NextLookup ==
    \/ FindFfmpegPath
    \/ FindRceditPath

SpecLookup == InitLookup /\ [][NextLookup]_vars

\* The lookup of the helper called name went through the three places in
\* order: res names the first place that holds it, and is a failure only
\* when none does.
FirstOfThree(f, name, res) ==
    IF Exists(f, BundledPath(name)) THEN res = Ok("resource")
    ELSE IF Exists(f, DevPath(name)) THEN res = Ok("manifest_dir")
    ELSE IF Exists(f, HostPath(name)) THEN res = Ok("path")
    ELSE ~res.ok

\* C13: the lookup of either helper binary (the transcoder, the resource
\* editor) returns the first of the three places that holds the binary,
\* in the order bundled resources, developer layout, host PATH, and fails
\* only when none of the three holds it.
C13_HelperLookupOrder ==
    result.op \in {"find_ffmpeg_path", "find_rcedit_path"}
        => FirstOfThree(fs, result.id, result.res)

(* ------------------------------------------------------------------ *)
(* Further properties of the maker's export (SpecExport)                *)
(* ------------------------------------------------------------------ *)

\* The tuple collected for the media file is the compressed one: same id
\* and name, video/mp4, the compressor's output file as its source.
IsCompressedTuple(tuple, file) ==
    /\ tuple.id = file.id
    /\ tuple.name = file.name
    /\ tuple.mime_type = MIME_MP4
    /\ tuple.source.kind = "Path"
    /\ tuple.source.path.kind = "viswave_compressed"

\* The file is one the compression stage must leave alone: compression
\* absent or disabled, not a video, or a video with neither data nor path.
LeftAlone(file, compression) ==
    \/ ~compression_enabled(compression)
    \/ ~is_video_file(file.mime_type)
    \/ (~file.data.some /\ ~file.path.some)

\* C14: the tuples handed to the embedding step keep the order of the
\* request's lists; a media tuple differs from its file only when the
\* file is a video with data or a path, compression is enabled and its
\* compression succeeded (then it is video/mp4 with the compressor's output
\* as source); with compression absent or disabled, for a file that is
\* not a video and for a video with neither data nor path the tuple is
\* the file's own id, name, mime type and source and no transcoder run is
\* made; every button tuple is its file's own, whatever its mime type.
C14_OnlyCompressedVideosChange ==
    /\ \A i \in 1..Len(media_files) :
        /\ IF outcomes[i] = "compressed"
           THEN /\ ~LeftAlone(request.media_files[i], request.compression)
                /\ IsCompressedTuple(media_files[i], request.media_files[i])
           ELSE media_files[i] = to_media_source(request.media_files[i])
        /\ LeftAlone(request.media_files[i], request.compression) => outcomes[i] = "kept"
    /\ \A i \in 1..Len(outcomes) :
        LeftAlone(request.media_files[i], request.compression) => outcomes[i] = "kept"
    /\ request # NoRequest =>
        \A i \in 1..Len(button_files) :
            /\ button_files[i].id = request.button_files[i].id
            /\ button_files[i].name = request.button_files[i].name
            /\ button_files[i].mime_type = request.button_files[i].mime_type
            /\ button_files[i].source = SourceOfData(request.button_files[i].data.v)

\* A successful export with compression enabled of a compressed video and
\* a button whose mime type is a video's.
C14_Witness ==
    /\ Succeeded
    /\ compression_enabled(request.compression)
    /\ Len(media_files) = 1 /\ outcomes = <<"compressed">>
    /\ IsCompressedTuple(media_files[1], request.media_files[1])
    /\ Len(request.button_files) = 1
    /\ is_video_file(button_files[1].mime_type)
    /\ button_files[1].source.kind = "Data"

(* ------------------------------------------------------------------ *)
(* Two exports of the maker at once, to different output paths          *)
(* (SpecConcurrent).  pc, request, result, compressed_temp_files,       *)
(* media_files and trace hold one value per invocation; fs is the one   *)
(* disk both use.  The helpers are found and every step succeeds when   *)
(* the files it needs are there.                                        *)
(* ------------------------------------------------------------------ *)

Invocations == {1, 2}

\* request.output_path of invocation i
OutputPathOf(i) == Path("output", <<i>>, <<>>, 0, 0)

\* The video and the icon of invocation i; both videos are named "c.mov".
VideoOf(i) == [VideoData EXCEPT !.data = Some(<<i, i>>)]
IconOf(i) == <<137, 80, i>>

RequestsOf(i) ==
    { [project_json |-> <<123, 125>>, media_files |-> m, button_files |-> <<>>,
       app_icon |-> Some(IconOf(i)), compression |-> Some([enabled |-> TRUE])] :
        m \in {<<>>, <<VideoOf(i)>>} }

InitConcurrent ==
    /\ exe = BareImage
    /\ exe_req = NoRequest
    /\ fs = NoFiles
    /\ request \in {r \in [Invocations -> UNION {RequestsOf(i) : i \in Invocations}] :
                       \A i \in Invocations : r[i] \in RequestsOf(i)}
    /\ result = [i \in Invocations |-> NoResult]
    /\ open_len = 0
    /\ pc = [i \in Invocations |-> "media"]
    /\ ffmpeg_path = Some("resource")
    /\ compressed_temp_files = [i \in Invocations |-> <<>>]
    /\ media_files = [i \in Invocations |-> <<>>]
    /\ manifest = None
    /\ trace = [i \in Invocations |-> <<>>]
    /\ outcomes = <<>>

\* What the steps of one invocation leave alone.
concurrent_frame == <<exe, exe_req, request, open_len, ffmpeg_path, manifest, outcomes>>

\* Invocation i collects the tuple process_media_file_for_export returned.
CollectedOf(i, p) ==
    /\ fs' = p.fs
    /\ compressed_temp_files' = [compressed_temp_files EXCEPT ![i] = p.compressed_temp_files]
    /\ media_files' = [media_files EXCEPT ![i] = Append(@, p.res.val)]

\* One turn of invocation i's map over request.media_files.
ProcessMediaFileOf(i) ==
    /\ pc[i] = "media"
    /\ Len(media_files[i]) < Len(request[i].media_files)
    /\ \E timestamp \in Timestamps, suffix \in Suffixes :
        CollectedOf(i, process_media_file_for_export(
                           fs, compressed_temp_files[i],
                           request[i].media_files[Len(media_files[i]) + 1],
                           request[i].compression, timestamp, suffix, TRUE, "ok"))
    /\ UNCHANGED <<concurrent_frame, pc, result, trace>>

\* prepare_base_executable(&output_path) of invocation i.
PrepareBaseExecutableOf(i) ==
    /\ pc[i] = "media"
    /\ Len(media_files[i]) = Len(request[i].media_files)
    /\ fs' = WriteFile(fs, OutputPathOf(i), ViewerImage)
    /\ pc' = [pc EXCEPT ![i] = "convert"]
    /\ UNCHANGED <<concurrent_frame, result, compressed_temp_files, media_files, trace>>

\* convert_to_ico(icon_data, &ico_path) of invocation i: temp_icon.ico is
\* created or truncated and written.
ConvertToIcoOf(i) ==
    /\ pc[i] = "convert"
    /\ fs' = WriteFile(fs, IcoPath, Ico(request[i].app_icon.v))
    /\ pc' = [pc EXCEPT ![i] = "patch"]
    /\ UNCHANGED <<concurrent_frame, result, compressed_temp_files, media_files, trace>>

\* set_exe_icon(exe_path, &ico_path, &rcedit_path) of invocation i: the
\* resource editor reads temp_icon.ico as it is now, and exits non-zero
\* when it is not there.
SetExeIconOf(i) ==
    /\ pc[i] = "patch"
    /\ IF Exists(fs, IcoPath)
       THEN /\ \E g \in 0..MaxGrow :
                 fs' = WriteFile(fs, OutputPathOf(i),
                                 Rcedit(fs[OutputPathOf(i)], fs[IcoPath], g))
            /\ trace' = [trace EXCEPT ![i] = Append(@, [step |-> "patch",
                                                        data |-> fs[IcoPath]])]
            /\ pc' = [pc EXCEPT ![i] = "remove"]
            /\ UNCHANGED result
       ELSE /\ result' = [result EXCEPT ![i] = ExportResult(Err("rcedit failed: ", <<>>))]
            /\ pc' = [pc EXCEPT ![i] = "done"]
            /\ UNCHANGED <<fs, trace>>
    /\ UNCHANGED <<concurrent_frame, compressed_temp_files, media_files>>

\* let _ = std::fs::remove_file(&ico_path) of invocation i.
RemoveIcoOf(i) ==
    /\ pc[i] = "remove"
    /\ fs' = RemoveFile(fs, IcoPath)
    /\ pc' = [pc EXCEPT ![i] = "append"]
    /\ UNCHANGED <<concurrent_frame, result, compressed_temp_files, media_files, trace>>

\* The bytes embedded for the tuples: those of the first, if any.
EmbeddedBytes(f, tuples) == IF tuples = <<>> THEN <<>> ELSE SourceBytes(f, tuples[1])

\* append_embedded_data of invocation i.
AppendEmbeddedDataOf(i) ==
    /\ pc[i] = "append"
    /\ IF AllReadable(fs, media_files[i])
       THEN /\ fs' = WriteFile(fs, OutputPathOf(i),
                         fs[OutputPathOf(i)]
                         \o append_embedded_data(fs[OutputPathOf(i)], request[i].project_json,
                                                 Resolve(fs, media_files[i]), <<>>,
                                                 request[i].app_icon).bytes)
            /\ trace' = [trace EXCEPT ![i] =
                            Append(@, [step |-> "append",
                                       data |-> EmbeddedBytes(fs, media_files[i])])]
            /\ pc' = [pc EXCEPT ![i] = "cleanup"]
            /\ UNCHANGED result
       ELSE /\ result' = [result EXCEPT ![i] = ExportResult(Err("Failed to append: ", <<>>))]
            /\ pc' = [pc EXCEPT ![i] = "done"]
            /\ UNCHANGED <<fs, trace>>
    /\ UNCHANGED <<concurrent_frame, compressed_temp_files, media_files>>

\* The cleanup loop of invocation i, and Ok(()).
CleanupOf(i) ==
    /\ pc[i] = "cleanup"
    /\ fs' = RemoveFiles(fs, compressed_temp_files[i])
    /\ result' = [result EXCEPT ![i] = ExportResult(Ok(TRUE))]
    /\ pc' = [pc EXCEPT ![i] = "done"]
    /\ UNCHANGED <<concurrent_frame, compressed_temp_files, media_files, trace>>

NextConcurrent ==
    \E i \in Invocations :
        \/ ProcessMediaFileOf(i)
        \/ PrepareBaseExecutableOf(i)
        \/ ConvertToIcoOf(i)
        \/ SetExeIconOf(i)
        \/ RemoveIcoOf(i)
        \/ AppendEmbeddedDataOf(i)
        \/ CleanupOf(i)

SpecConcurrent == InitConcurrent /\ [][NextConcurrent]_vars

\* What invocation i embeds when nothing interferes: its own video,
\* transcoded.
OwnEmbeddedBytes(i) ==
    IF request[i].media_files = <<>> THEN <<>>
    ELSE Transcode(request[i].media_files[1].data.v)

\* C15: two exports running at once against different output paths do not
\* interfere: each output is patched with the icon converted from its own
\* request, each embeds its own media, and neither fails for want of a
\* temporary file the other removed or replaced, whatever the order of
\* their steps.
C15_NoInterference ==
    \A i \in Invocations :
        /\ pc[i] = "done" => result[i].res.ok
        /\ \A k \in 1..Len(trace[i]) :
            /\ trace[i][k].step = "patch" => trace[i][k].data = Ico(request[i].app_icon.v)
            /\ trace[i][k].step = "append" => trace[i][k].data = OwnEmbeddedBytes(i)

(* ------------------------------------------------------------------ *)
(* Further properties of the reader on any file (SpecReader)            *)
(* ------------------------------------------------------------------ *)

\* The manifest of a file with a footer cannot be read: the size word
\* exceeds the bytes before the footer, or those bytes are not UTF-8 or
\* not the JSON of a manifest.
ManifestUnreadable(F, w) ==
    \/ w.cls # "small"
    \/ w.v > Len(F) - (MAGIC_SIZE + MANIFEST_SIZE_BYTES)
    \/ ~from_utf8_ok(ManifestJson(F))
    \/ ~from_str(ManifestJson(F)).ok

\* The project document the manifest records lies beyond the file.
ProjectBeyond(F, read) ==
    read.ok /\ read.val.project_json_offset + read.val.project_json_size > Len(F)

\* C16: on a file of 17 bytes or more that ends with the magic, no reader
\* operation ends abnormally (panics or aborts), whatever the size word
\* and the bytes before it are; every operation returns a failure string
\* when the manifest cannot be read, and the project read returns one when
\* the manifest records a range beyond the end of the file.
C16_MalformedFailsCleanly ==
    (exe_req = ArbitraryFile /\ HasFooter(exe) /\ result.op # "none")
        => /\ result.res # Panic
           /\ ManifestUnreadable(exe, from_le_bytes(SubSeq(exe, Len(exe) - 16, Len(exe) - 9)))
                  => ~result.res.ok
           /\ (result.op = "get_embedded_project_json"
               /\ ProjectBeyond(exe, read_manifest(exe)))
                  => ~result.res.ok

(* ------------------------------------------------------------------ *)
(* Successive re-packs: a packed viewer exports, its product is         *)
(* launched and exports again (SpecRepack).  trace holds the requests   *)
(* packed so far, in order.                                             *)
(* ------------------------------------------------------------------ *)

\* Most exports in a row.
MaxRepacks == 2

\* Requests of the re-packs: no asset, or one of the two assets with id
\* "x" (2 bytes, or empty); the empty document without icon, or the other
\* document with an icon.
RepackRequests ==
    { [project_json |-> d.p, media_files |-> m, button_files |-> <<>>, app_icon |-> d.i] :
        d \in { [p |-> <<>>, i |-> None],
                [p |-> <<34, 195, 169, 34>>, i |-> Some(<<137, 80, 78>>)] },
        m \in {<<>>} \cup {<<f>> : f \in {g \in ViewerFiles : g.id = ID_x}} }

InitRepack ==
    /\ exe \in BaseImages
    /\ exe_req = NoRequest
    /\ fs = NoFiles
    /\ request = NoRequest
    /\ result = NoResult
    /\ open_len = 0
    /\ MakerIdle

\* export_as_executable(request) in the running image, once the last
\* product (if any) is the running image.
ExportAgain ==
    /\ Len(trace) < MaxRepacks
    /\ exe_req = request
    /\ \E r \in RepackRequests :
        /\ request' = r
        /\ fs' = WriteFile(fs, OutputPath, viewer_export_as_executable(exe, r))
        /\ trace' = Append(trace, r)
    /\ open_len' = Len(exe)
    /\ result' = ExportResult(Ok(TRUE))
    /\ UNCHANGED <<viewer_vars, pc, ffmpeg_path, compressed_temp_files, media_files,
                   manifest, outcomes>>

\* The product just exported is started: it is now the running image.
LaunchProduct ==
    /\ exe_req # request
    /\ exe' = fs[OutputPath]
    /\ exe_req' = request
    /\ result' = NoResult
    /\ UNCHANGED <<fs, request, open_len, maker_vars>>

NextRepack ==
    \/ ExportAgain
    \/ LaunchProduct
    \/ GetEmbeddedDataInfo
    \/ GetEmbeddedProjectJson
    \/ GetEmbeddedMediaData
    \/ GetEmbeddedAppIcon

SpecRepack == InitRepack /\ [][NextRepack]_vars

\* The output F of an export of r from the image base: the image is kept
\* whole, the first region starts at the image's full length, and what is
\* read through the tail footer is r's payload.
RepackedReadsBack(F, read, r, base) ==
    /\ SubSeq(F, 1, Len(base)) = base
    /\ read.ok
    /\ Regions(read.val)[1].offset = Len(base)
    /\ PayloadReadsBack(F, read, r)

\* C17: re-packing is stable.  When the running image already ends with a
\* payload and a footer, the export's first offset is the full length of
\* that image, and every reader operation on the output goes by the last
\* footer and returns the project document, assets and icon just packed,
\* nothing of an earlier payload; so after any number of exports in a row.
C17_RepackStable ==
    /\ result.op = "export_as_executable"
        => RepackedReadsBack(fs[OutputPath], read_manifest(fs[OutputPath]), request, exe)
    /\ result.op = "get_embedded_data_info"
        => /\ result.res.ok
           /\ result.res.val.has_embedded_data
           /\ result.res.val.manifest.some
           /\ PayloadReadsBack(exe, Ok(result.res.val.manifest.v), exe_req)
    /\ result.op = "get_embedded_project_json" => result.res = Ok(exe_req.project_json)
    /\ result.op = "get_embedded_app_icon" => result.res = Ok(exe_req.app_icon)
    /\ result.op = "get_embedded_media_data" => result.res = ExpectedMedia(exe_req, result.id)

\* The third payload of an image (a packed base, re-packed twice) is read:
\* the asset "x" of the last request, where the request before had another
\* asset "x", a different document and an icon.
C17_Witness ==
    /\ Len(trace) = MaxRepacks
    /\ \E b \in BaseImages :
        b # BareImage /\ Len(b) <= Len(exe) /\ SubSeq(exe, 1, Len(b)) = b
    /\ exe_req = trace[Len(trace)]
    /\ trace[Len(trace) - 1].media_files # <<>>
    /\ trace[Len(trace)].media_files # <<>>
    /\ trace[Len(trace) - 1].media_files # trace[Len(trace)].media_files
    /\ trace[Len(trace) - 1].app_icon.some /\ ~trace[Len(trace)].app_icon.some
    /\ result.op = "get_embedded_media_data"
    /\ result.id = ID_x
    /\ result.res = Ok(exe_req.media_files[1].data)

====
